---- MODULE Spec2Model ----
(***************************************************************************)
(* A model of the pager authentication / RBAC engine: the rbac_user table, *)
(* the redis session cache, credential authentication, session issue and   *)
(* revocation, and the request guards of the auth package.                 *)
(*                                                                         *)
(* Go strings that are split or compared as keys (tokens, cookie values,   *)
(* Authorization headers) are sequences of chunks; the chunk " " is the    *)
(* space character and every other chunk is a run of non-space characters. *)
(* A pointer is <<>> (nil) or <<v>>.                                       *)
(***************************************************************************)
EXTENDS Integers, Sequences, FiniteSets, TLC

VARIABLES
    rbac_user,          \* rows of table rbac_user
    userAutoInc,        \* AUTO_INCREMENT counter of rbac_user.id
    cache,              \* redis: key -> [val, ttl]
    tokenCounter,       \* how many tokens the token strategy has produced
    loginMethod,        \* Auth.loginMethod
    expiredInSeconds,   \* Auth.expiredInSeconds
    res,                \* the last call: its name, inputs and results
    calls,              \* the SignIn calls in progress, one per concurrent request
    rbac_role,          \* rows of table rbac_role
    rbac_permission,    \* rows of table rbac_permission
    rbac_user_role,     \* rows of table rbac_user_role
    rbac_role_permission,   \* rows of table rbac_role_permission
    roleAutoInc,        \* AUTO_INCREMENT counter of rbac_role.id
    permissionAutoInc,  \* AUTO_INCREMENT counter of rbac_permission.id
    now,                \* seconds elapsed on the clock of redis
    issued,             \* when each session key was stored: [key, at]
    rbac_migration,     \* migration_key of the rows of table rbac_migration
    stepWrites          \* the migrations whose step left its writes in the database

vars == <<rbac_user, userAutoInc, cache, tokenCounter, loginMethod, expiredInSeconds,
          res, calls, rbac_role, rbac_permission, rbac_user_role, rbac_role_permission,
          roleAutoInc, permissionAutoInc, now, issued, rbac_migration, stepWrites>>

\* what a migration writes: its step's rows and the record of its key
migrationTables == <<rbac_migration, stepWrites>>

\* the tables of roles and permissions
rbacTables == <<rbac_role, rbac_permission, rbac_user_role, rbac_role_permission,
                roleAutoInc, permissionAutoInc>>

(***************************************************************************)
(* Bounds of the model                                                     *)
(***************************************************************************)
MaxUsers == 2
MaxTokens == 2
MaxTTL == 1
MaxExpiry == 2
MaxRoles == 2
MaxPermissions == 2

Names == {"a", "b"}         \* values of the email and username columns
Secrets == {"p", "q"}       \* plaintext secrets

(***************************************************************************)
(* Program constants                                                       *)
(***************************************************************************)
LoginEmail == 0
LoginUsername == 1
LoginEmailUsername == 2

CookieBasedAuth == 0
TokenBasedAuth == 1

StatusOK == 200
StatusUnauthorized == 401
StatusForbidden == 403

\* time.Duration counts nanoseconds: time.Duration(n) is n nanoseconds
NanosPerSecond == 1000000000

ErrNil == "nil"
ErrInvalidPasswordLogin == "invalid password"
ErrInvalidUserLogin == "invalid user"
ErrCreatingToken == "error while create a new auth token"
ErrCreatingCookie == "error while set cookie"
ErrInvalidCookie == "invalid cookie"
ErrInvalidAuthorization == "invalid authorization"
ErrValidateCookie == "error validate cookie"
ErrUserNotFound == "user not found"
ErrUserNotActive == "user is not active"
ErrNoSchema == "no schema provided"
ErrInvalidParams == "invalid params"
\* errors of the collaborators (database/sql driver, MySQL, go-redis)
ErrStore == "driver: bad connection"
ErrSQLSyntax == "Error 1064: SQL syntax"
ErrDuplicate == "Error 1062: Duplicate entry"
ErrCache == "redis: connection refused"
ErrRedisNil == "redis: nil"
ErrRedisExpire == "ERR invalid expire time in setex"
ErrParseInt == "strconv.ParseInt: invalid syntax"
ErrInvalidID == "ErrInvalidID"
ErrArgs == "sql: expected 4 arguments, got 2"
ErrScan == "sql: expected 5 destination arguments in Scan, not 6"
ErrMigrationAlreadyExist == "error while running migration, migration already exist"
ErrMigrationHistory == "error while record migration history"
ErrMigrationStep == "migration failed"

Nil == <<>>
SP == " "

(***************************************************************************)
(* The identity store: table rbac_user                                     *)
(***************************************************************************)

\* result.Scan(&user.ID, &user.Email, &user.Username, &user.Password, &user.Active)
ScanUser(row) ==
    [ID |-> row.id, Username |-> row.username, Email |-> row.email,
     Password |-> row.password, Active |-> row.active]

\* The WHERE clause FindUser builds: one "k = ?" per field, and " AND " after
\* it while index < paramsLength-1; index is never advanced.
NumAnds(paramsLength) ==
    IF 0 < paramsLength - 1 THEN paramsLength ELSE 0

QueryWellFormed(paramsLength) == NumAnds(paramsLength) = paramsLength - 1

MatchRows(rows, params) ==
    {r \in rows : \A k \in DOMAIN params : r[k] = params[k]}

\* (u *User) FindUser(params): the set of results the call can return. ok is
\* whether the database answers the query; a LIMIT 1 query returns any one
\* of the matching rows.
FindUser(DBContract, params, rows, ok) ==
    IF ~DBContract THEN {<<Nil, ErrNoSchema>>}
    ELSE IF Cardinality(DOMAIN params) = 0 THEN {<<Nil, ErrInvalidParams>>}
    ELSE IF ~ok THEN {<<Nil, ErrStore>>}
    ELSE IF ~QueryWellFormed(Cardinality(DOMAIN params)) THEN {<<Nil, ErrSQLSyntax>>}
    ELSE IF MatchRows(rows, params) = {} THEN {<<Nil, ErrNil>>}
    ELSE {<< <<ScanUser(r)>>, ErrNil >> : r \in MatchRows(rows, params)}

\* (u *User) FindUserByUsernameOrEmail(params): WHERE email = ? OR username = ?
\* with no ORDER BY; QueryRow keeps the first row the database returns.
FindUserByUsernameOrEmail(DBContract, params, rows, ok) ==
    IF ~DBContract THEN {<<Nil, ErrNoSchema>>}
    ELSE IF ~ok THEN {<<Nil, ErrStore>>}
    ELSE IF {r \in rows : r.email = params \/ r.username = params} = {} THEN {<<Nil, ErrNil>>}
    ELSE {<< <<ScanUser(r)>>, ErrNil >> :
             r \in {r \in rows : r.email = params \/ r.username = params}}

\* INSERT INTO rbac_user (email, username, password): email and username are
\* unique keys, id is AUTO_INCREMENT, active defaults to true.
InsertUserDuplicate(rows, email, username) ==
    \E r \in rows : r.email = email \/ r.username = username

\* saveUserQuery: INSERT ... ON DUPLICATE KEY UPDATE email, username, password, active
SaveUserRows(rows, autoInc, u) ==
    LET hit == {r \in rows : r.email = u.Email \/ r.username = u.Username}
        new(id) == [id |-> id, email |-> u.Email, username |-> u.Username,
                    password |-> u.Password, active |-> u.Active]
    IN  IF hit = {} THEN rows \cup {new(autoInc + 1)}
        ELSE IF Cardinality(hit) = 1
             THEN (rows \ hit) \cup {new((CHOOSE r \in hit : TRUE).id)}
        ELSE rows

(***************************************************************************)
(* The password strategy (pager.PasswordGenerator)                         *)
(***************************************************************************)
HashPassword(plain) == "hash(" \o plain \o ")"

ValidatePassword(hashed, plain) == hashed = HashPassword(plain)

(***************************************************************************)
(* auth.Auth.Authenticate                                                  *)
(***************************************************************************)

\* a lookup that ignores the configured login method
Lookup_AnyColumn(method, identifier, rows, ok) ==
    FindUserByUsernameOrEmail(TRUE, identifier, rows, ok)

\* the switch on a.loginMethod: the results the lookup can have
Lookup(method, identifier, rows, ok) ==
    IF method = LoginEmail
    THEN FindUser(TRUE, [k \in {"email"} |-> identifier], rows, ok)
    ELSE IF method = LoginUsername
    THEN FindUser(TRUE, [k \in {"username"} |-> identifier], rows, ok)
    ELSE IF method = LoginEmailUsername
    THEN FindUserByUsernameOrEmail(TRUE, identifier, rows, ok)
    ELSE {<<Nil, ErrNil>>}

\* Authenticate without the password check
AuthenticateResult_NoPassword(loggedUser, err, password) ==
    IF loggedUser = Nil THEN <<Nil, ErrInvalidUserLogin>>
    ELSE IF err # ErrNil THEN <<Nil, err>>
    ELSE IF ~loggedUser[1].Active THEN <<Nil, ErrUserNotActive>>
    ELSE <<loggedUser, ErrNil>>

\* Authenticate without the check of the active flag
AuthenticateResult_NoActive(loggedUser, err, password) ==
    IF loggedUser = Nil THEN <<Nil, ErrInvalidUserLogin>>
    ELSE IF err # ErrNil THEN <<Nil, err>>
    ELSE IF ~ValidatePassword(loggedUser[1].Password, password)
    THEN <<Nil, ErrInvalidPasswordLogin>>
    ELSE <<loggedUser, ErrNil>>

\* the checks that follow the lookup, in the order of the code
AuthenticateResult(loggedUser, err, password) ==
    IF loggedUser = Nil THEN <<Nil, ErrInvalidUserLogin>>
    ELSE IF err # ErrNil THEN <<Nil, err>>
    ELSE IF ~ValidatePassword(loggedUser[1].Password, password)
    THEN <<Nil, ErrInvalidPasswordLogin>>
    ELSE IF ~loggedUser[1].Active THEN <<Nil, ErrUserNotActive>>
    ELSE <<loggedUser, ErrNil>>

Authenticate(identifier, password, dbOk) ==
    \E lk \in Lookup(loginMethod, identifier, rbac_user, dbOk) :
        /\ res' = [op |-> "Authenticate", identifier |-> identifier,
                   password |-> password, dbOk |-> dbOk,
                   found |-> lk[1], lookupErr |-> lk[2],
                   user |-> AuthenticateResult(lk[1], lk[2], password)[1],
                   err |-> AuthenticateResult(lk[1], lk[2], password)[2]]
        /\ UNCHANGED <<rbac_user, userAutoInc, cache, tokenCounter,
                       loginMethod, migrationTables, expiredInSeconds, calls,
                   rbacTables, now, issued>>

(***************************************************************************)
(* auth.Auth.Register and User.CreateUser, User.Save                       *)
(***************************************************************************)
\* Register whose CreateUser drops the error of Exec
Register_DropsExecError(email, username, password, dbOk) ==
    /\ userAutoInc < MaxUsers
    /\ IF ~dbOk \/ InsertUserDuplicate(rbac_user, email, username)
       THEN /\ res' = [op |-> "Register", email |-> email, username |-> username,
                       password |-> password, dbOk |-> dbOk, id |-> 0, err |-> ErrNil]
            /\ UNCHANGED <<rbac_user, userAutoInc>>
       ELSE /\ rbac_user' = rbac_user \cup
                   {[id |-> userAutoInc + 1, email |-> email, username |-> username,
                     password |-> HashPassword(password), active |-> TRUE]}
            /\ userAutoInc' = userAutoInc + 1
            /\ res' = [op |-> "Register", email |-> email, username |-> username,
                       password |-> password, dbOk |-> dbOk, id |-> userAutoInc + 1,
                       err |-> ErrNil]
    /\ UNCHANGED <<cache, tokenCounter, loginMethod, migrationTables, expiredInSeconds, calls,
                   rbacTables, now, issued>>

\* Register that hands the plaintext secret to CreateUser
Register_StoresPlaintext(email, username, password, dbOk) ==
    /\ userAutoInc < MaxUsers
    /\ IF ~dbOk
       THEN /\ res' = [op |-> "Register", email |-> email, username |-> username,
                       password |-> password, dbOk |-> dbOk, id |-> 0, err |-> ErrStore]
            /\ UNCHANGED <<rbac_user, userAutoInc>>
       ELSE IF InsertUserDuplicate(rbac_user, email, username)
       THEN /\ res' = [op |-> "Register", email |-> email, username |-> username,
                       password |-> password, dbOk |-> dbOk, id |-> 0, err |-> ErrDuplicate]
            /\ UNCHANGED <<rbac_user, userAutoInc>>
       ELSE /\ rbac_user' = rbac_user \cup
                   {[id |-> userAutoInc + 1, email |-> email, username |-> username,
                     password |-> password, active |-> TRUE]}
            /\ userAutoInc' = userAutoInc + 1
            /\ res' = [op |-> "Register", email |-> email, username |-> username,
                       password |-> password, dbOk |-> dbOk, id |-> userAutoInc + 1,
                       err |-> ErrNil]
    /\ UNCHANGED <<cache, tokenCounter, loginMethod, migrationTables, expiredInSeconds, calls,
                   rbacTables, now, issued>>

\* Register(user): the secret is hashed, CreateUser inserts the row and sets
\* user.ID to the generated id and user.Active to true. res keeps the user
\* the caller passed (email, username, plaintext password) and the id.
Register(email, username, password, dbOk) ==
    /\ userAutoInc < MaxUsers
    /\ IF ~dbOk
       THEN /\ res' = [op |-> "Register", email |-> email, username |-> username,
                       password |-> password, dbOk |-> dbOk, id |-> 0, err |-> ErrStore]
            /\ UNCHANGED <<rbac_user, userAutoInc>>
       ELSE IF InsertUserDuplicate(rbac_user, email, username)
       THEN /\ res' = [op |-> "Register", email |-> email, username |-> username,
                       password |-> password, dbOk |-> dbOk, id |-> 0, err |-> ErrDuplicate]
            /\ UNCHANGED <<rbac_user, userAutoInc>>
       ELSE /\ rbac_user' = rbac_user \cup
                   {[id |-> userAutoInc + 1, email |-> email, username |-> username,
                     password |-> HashPassword(password), active |-> TRUE]}
            /\ userAutoInc' = userAutoInc + 1
            /\ res' = [op |-> "Register", email |-> email, username |-> username,
                       password |-> password, dbOk |-> dbOk, id |-> userAutoInc + 1,
                       err |-> ErrNil]
    /\ UNCHANGED <<cache, tokenCounter, loginMethod, migrationTables, expiredInSeconds, calls,
                   rbacTables, now, issued>>

\* Save of a user fetched from the store whose Active field the caller set
Save(row, active) ==
    /\ row \in rbac_user
    /\ rbac_user' = SaveUserRows(rbac_user, userAutoInc,
                                 [ScanUser(row) EXCEPT !.Active = active])
    /\ res' = [op |-> "Save", err |-> ErrNil]
    /\ UNCHANGED <<userAutoInc, cache, tokenCounter, loginMethod, migrationTables,
                   expiredInSeconds, calls,
                   rbacTables, now, issued>>

(***************************************************************************)
(* The session cache (redis) as the auth package uses it                   *)
(***************************************************************************)

\* strconv.FormatInt(n, 10) and the decimal parse that undoes it (redis'
\* reading of the SETEX seconds, go-redis' Cmd.Int64 of a GET reply)
FormatInt(n) == ToString(n)

IntLiterals == -1 .. (MaxUsers + MaxTTL + 2)

ParseInt(s) ==
    IF \E n \in IntLiterals : ToString(n) = s
    THEN <<CHOOSE n \in IntLiterals : ToString(n) = s, ErrNil>>
    ELSE <<0, ErrParseInt>>

CacheKeys(c) == {e.key : e \in c}

\* SETEX key seconds value
RedisSetex(c, key, seconds, value, ok) ==
    IF ~ok THEN <<c, ErrCache>>
    ELSE IF ParseInt(seconds)[2] # ErrNil \/ ParseInt(seconds)[1] <= 0
    THEN <<c, ErrRedisExpire>>
    ELSE <<{e \in c : e.key # key} \cup
             {[key |-> key, val |-> FormatInt(value), ttl |-> ParseInt(seconds)[1]]},
           ErrNil>>

\* GET key
RedisGet(c, key, ok) ==
    IF ~ok THEN <<"", ErrCache>>
    ELSE IF key \notin CacheKeys(c) THEN <<"", ErrRedisNil>>
    ELSE <<(CHOOSE e \in c : e.key = key).val, ErrNil>>

\* DEL key: deleting a key that does not exist is no error; the reply is
\* the number of keys removed. <<cache', err, reply>>
RedisDel(c, key, ok) ==
    IF ~ok THEN <<c, ErrCache, 0>>
    ELSE <<{e \in c : e.key # key}, ErrNil, Cardinality({e \in c : e.key = key})>>

\* one second passes in redis: every entry's time to live drops by one and
\* the entries that reach zero are evicted
Expire(c) ==
    {[e EXCEPT !.ttl = e.ttl - 1] : e \in {x \in c : x.ttl > 1}}

(***************************************************************************)
(* The token strategy (pager.TokenGenerator): the n-th token it produces   *)
(***************************************************************************)
GenerateToken(n) == <<"t" \o ToString(n)>>

GenerateCookie(n) == <<"t" \o ToString(n)>>

(***************************************************************************)
(* strings.Split(s, " ")                                                   *)
(***************************************************************************)
RECURSIVE Split(_)
Split(s) ==
    IF \A i \in 1..Len(s) : s[i] # SP THEN <<s>>
    ELSE LET i == CHOOSE j \in 1..Len(s) :
                      s[j] = SP /\ \A k \in 1..(j - 1) : s[k] # SP
         IN  <<SubSeq(s, 1, i - 1)>> \o Split(SubSeq(s, i + 1, Len(s)))

(***************************************************************************)
(* auth.Auth: VerifyToken, SignIn, SignInCookie, ClearSession, Logout      *)
(***************************************************************************)
\* VerifyToken that takes the reply of GET on a missing key for the id 0
VerifyToken_MissIsZero(c, token, ok) ==
    IF RedisGet(c, token, ok)[2] = ErrRedisNil THEN <<0, ErrNil>>
    ELSE IF RedisGet(c, token, ok)[2] # ErrNil THEN <<-1, RedisGet(c, token, ok)[2]>>
    ELSE IF ParseInt(RedisGet(c, token, ok)[1])[2] # ErrNil
    THEN <<-1, ParseInt(RedisGet(c, token, ok)[1])[2]>>
    ELSE <<ParseInt(RedisGet(c, token, ok)[1])[1], ErrNil>>

VerifyToken(c, token, ok) ==
    IF RedisGet(c, token, ok)[2] # ErrNil THEN <<-1, RedisGet(c, token, ok)[2]>>
    ELSE IF ParseInt(RedisGet(c, token, ok)[1])[2] # ErrNil
    THEN <<-1, ParseInt(RedisGet(c, token, ok)[1])[2]>>
    ELSE <<ParseInt(RedisGet(c, token, ok)[1])[1], ErrNil>>

\* the record of when a key was stored, kept for the statements about expiry:
\* a call that ends with err stores nothing
Issue(iss, key, at, err) ==
    IF err # ErrNil THEN iss
    ELSE {i \in iss : i.key # key} \cup {[key |-> key, at |-> at]}

\* SignIn with the value and the seconds of SETEX exchanged
SignInResult_SwappedArgs(loggedUser, err, token, c, seconds, cacheOk) ==
    IF err # ErrNil THEN <<Nil, <<>>, err, c>>
    ELSE IF RedisSetex(c, token, FormatInt(loggedUser[1].ID), seconds, cacheOk)[2] # ErrNil
    THEN <<Nil, <<>>, ErrCreatingToken, c>>
    ELSE <<loggedUser, token, ErrNil,
           RedisSetex(c, token, FormatInt(loggedUser[1].ID), seconds, cacheOk)[1]>>

\* SignIn that keeps one session per user: storing a token drops the user's others
SignInResult_SingleSession(loggedUser, err, token, c, seconds, cacheOk) ==
    IF err # ErrNil THEN <<Nil, <<>>, err, c>>
    ELSE IF RedisSetex(c, token, FormatInt(seconds), loggedUser[1].ID, cacheOk)[2] # ErrNil
    THEN <<Nil, <<>>, ErrCreatingToken, c>>
    ELSE <<loggedUser, token, ErrNil,
           RedisSetex({e \in c : e.val # FormatInt(loggedUser[1].ID)}, token,
                      FormatInt(seconds), loggedUser[1].ID, cacheOk)[1]>>

\* SignIn that asks SETEX for one second more than expiredInSeconds
SignInResult_LongerTTL(loggedUser, err, token, c, seconds, cacheOk) ==
    IF err # ErrNil THEN <<Nil, <<>>, err, c>>
    ELSE IF RedisSetex(c, token, FormatInt(seconds + 1), loggedUser[1].ID, cacheOk)[2] # ErrNil
    THEN <<Nil, <<>>, ErrCreatingToken, c>>
    ELSE <<loggedUser, token, ErrNil,
           RedisSetex(c, token, FormatInt(seconds + 1), loggedUser[1].ID, cacheOk)[1]>>

\* SignIn that does not look at the error of SETEX
SignInResult_IgnoresSetexError(loggedUser, err, token, c, seconds, cacheOk) ==
    IF err # ErrNil THEN <<Nil, <<>>, err, c>>
    ELSE <<loggedUser, token, ErrNil,
           RedisSetex(c, token, FormatInt(seconds), loggedUser[1].ID, cacheOk)[1]>>

\* SignIn after Authenticate returned (loggedUser, err): <<user, token, err, cache'>>
SignInResult(loggedUser, err, token, c, seconds, cacheOk) ==
    IF err # ErrNil THEN <<Nil, <<>>, err, c>>
    ELSE IF RedisSetex(c, token, FormatInt(seconds), loggedUser[1].ID, cacheOk)[2] # ErrNil
    THEN <<Nil, <<>>, ErrCreatingToken, c>>
    ELSE <<loggedUser, token, ErrNil,
           RedisSetex(c, token, FormatInt(seconds), loggedUser[1].ID, cacheOk)[1]>>

SignIn(identifier, password, dbOk, cacheOk) ==
    /\ tokenCounter < MaxTokens
    /\ \E lk \in Lookup(loginMethod, identifier, rbac_user, dbOk) :
         LET auth == AuthenticateResult(lk[1], lk[2], password)
             token == GenerateToken(tokenCounter + 1)
             r == SignInResult(auth[1], auth[2], token, cache, expiredInSeconds, cacheOk)
         IN  /\ tokenCounter' = IF auth[2] = ErrNil THEN tokenCounter + 1 ELSE tokenCounter
             /\ cache' = r[4]
             /\ issued' = Issue(issued, token, now, r[3])
             /\ res' = [op |-> "SignIn", identifier |-> identifier, cacheOk |-> cacheOk,
                        generated |-> IF auth[2] = ErrNil THEN token ELSE <<>>,
                        user |-> r[1], token |-> r[2], err |-> r[3]]
    /\ UNCHANGED <<rbac_user, userAutoInc, loginMethod, migrationTables, expiredInSeconds, calls,
                   rbacTables, now>>

\* the cookie http.SetCookie puts on the response in SignInCookie: Expires is
\* time.Now().Add(time.Duration(a.expiredInSeconds)), a Duration counting
\* nanoseconds
SessionCookie(value, seconds) ==
    [Value |-> value, ExpiresInNanos |-> seconds, MaxAge |-> 0]

\* the cookie ClearSession puts on the response
ClearedCookie == [Value |-> <<>>, ExpiresInNanos |-> 0, MaxAge |-> -1]

\* SignInCookie after Authenticate returned (loggedUser, err):
\* <<user, err, cache', cookies set on the response>>
SignInCookieResult(loggedUser, err, hashCookie, c, seconds, cacheOk) ==
    IF err # ErrNil THEN <<Nil, err, c, <<>> >>
    ELSE IF RedisSetex(c, hashCookie, FormatInt(seconds), loggedUser[1].ID, cacheOk)[2] # ErrNil
    THEN <<Nil, ErrCreatingCookie, c, <<SessionCookie(hashCookie, seconds)>> >>
    ELSE <<loggedUser, ErrNil,
           RedisSetex(c, hashCookie, FormatInt(seconds), loggedUser[1].ID, cacheOk)[1],
           <<SessionCookie(hashCookie, seconds)>> >>

SignInCookie(identifier, password, dbOk, cacheOk) ==
    /\ tokenCounter < MaxTokens
    /\ \E lk \in Lookup(loginMethod, identifier, rbac_user, dbOk) :
         LET auth == AuthenticateResult(lk[1], lk[2], password)
             hashCookie == GenerateCookie(tokenCounter + 1)
             r == SignInCookieResult(auth[1], auth[2], hashCookie, cache,
                                     expiredInSeconds, cacheOk)
         IN  /\ tokenCounter' = IF auth[2] = ErrNil THEN tokenCounter + 1 ELSE tokenCounter
             /\ cache' = r[3]
             /\ issued' = Issue(issued, hashCookie, now, r[2])
             /\ res' = [op |-> "SignInCookie", identifier |-> identifier,
                        cacheOk |-> cacheOk,
                        generated |-> IF auth[2] = ErrNil THEN hashCookie ELSE <<>>,
                        user |-> r[1], err |-> r[2], cookies |-> r[4]]
    /\ UNCHANGED <<rbac_user, userAutoInc, loginMethod, migrationTables, expiredInSeconds, calls,
                   rbacTables, now>>

\* ClearSession that clears the cookie of the browser and leaves the cache
ClearSessionResult_CookieOnly(cookie, c, cacheOk) ==
    IF cookie = Nil THEN <<ErrInvalidCookie, c, <<>>, 0>>
    ELSE IF RedisDel(c, cookie[1], cacheOk)[2] # ErrNil
    THEN <<RedisDel(c, cookie[1], cacheOk)[2], c, <<>>, 0>>
    ELSE <<ErrNil, c, <<ClearedCookie>>, 0>>

\* ClearSession that takes a DEL which removed nothing for a failure
ClearSessionResult_MissingIsError(cookie, c, cacheOk) ==
    IF cookie = Nil THEN <<ErrInvalidCookie, c, <<>>, 0>>
    ELSE IF RedisDel(c, cookie[1], cacheOk)[2] # ErrNil
    THEN <<RedisDel(c, cookie[1], cacheOk)[2], c, <<>>, 0>>
    ELSE IF RedisDel(c, cookie[1], cacheOk)[3] = 0
    THEN <<ErrRedisNil, c, <<>>, 0>>
    ELSE <<ErrNil, RedisDel(c, cookie[1], cacheOk)[1], <<ClearedCookie>>,
           RedisDel(c, cookie[1], cacheOk)[3]>>

\* ClearSession(w, r): cookie is the request's session cookie, Nil or <<value>>;
\* <<err, cache', cookies set on the response, DEL's reply>>
ClearSessionResult(cookie, c, cacheOk) ==
    IF cookie = Nil THEN <<ErrInvalidCookie, c, <<>>, 0>>
    ELSE IF RedisDel(c, cookie[1], cacheOk)[2] # ErrNil
    THEN <<RedisDel(c, cookie[1], cacheOk)[2], c, <<>>, 0>>
    ELSE <<ErrNil, RedisDel(c, cookie[1], cacheOk)[1], <<ClearedCookie>>,
           RedisDel(c, cookie[1], cacheOk)[3]>>

ClearSession(cookie, cacheOk) ==
    /\ cache' = ClearSessionResult(cookie, cache, cacheOk)[2]
    /\ res' = [op |-> "ClearSession", cookie |-> cookie, cacheOk |-> cacheOk,
               err |-> ClearSessionResult(cookie, cache, cacheOk)[1],
               cookies |-> ClearSessionResult(cookie, cache, cacheOk)[3],
               deleted |-> ClearSessionResult(cookie, cache, cacheOk)[4]]
    /\ UNCHANGED <<rbac_user, userAutoInc, tokenCounter, loginMethod, migrationTables,
                   expiredInSeconds, calls,
                   rbacTables, now, issued>>

\* Logout(request) once GetUserLogin returned user: the key it deletes is the
\* whole Authorization header; <<err, cache', DEL's reply>>
LogoutResult(user, header, c, cacheOk) ==
    IF user = Nil THEN <<ErrInvalidUserLogin, c, 0>>
    ELSE IF RedisDel(c, header, cacheOk)[2] # ErrNil
    THEN <<RedisDel(c, header, cacheOk)[2], c, 0>>
    ELSE <<ErrNil, RedisDel(c, header, cacheOk)[1], RedisDel(c, header, cacheOk)[3]>>

(***************************************************************************)
(* The request guards                                                      *)
(***************************************************************************)

\* getUserPrinciple that asks for at least two parts of the header
getUserPrinciple_AtLeastTwoParts(strategy, cookie, header, c, rows, cacheOk, dbOk) ==
    IF strategy = CookieBasedAuth /\ cookie = Nil THEN {<<Nil, ErrInvalidCookie>>}
    ELSE IF strategy = TokenBasedAuth /\ Len(Split(header)) < 2
    THEN {<<Nil, ErrInvalidAuthorization>>}
    ELSE LET token == IF strategy = CookieBasedAuth THEN cookie[1]
                      ELSE IF strategy = TokenBasedAuth THEN Split(header)[2]
                      ELSE <<>>
             v == VerifyToken(c, token, cacheOk)
         IN  IF v[2] # ErrNil THEN {<<Nil, ErrValidateCookie>>}
             ELSE {IF f[2] # ErrNil THEN <<Nil, ErrUserNotFound>> ELSE <<f[1], ErrNil>> :
                      f \in FindUser(TRUE, [k \in {"id"} |-> v[1]], rows, dbOk)}

\* getUserPrinciple(r, strategy): the request carries the session cookie
\* (Nil or <<value>>) and the Authorization header; the set of results
\* <<user, err>> the call can have
getUserPrinciple(strategy, cookie, header, c, rows, cacheOk, dbOk) ==
    IF strategy = CookieBasedAuth /\ cookie = Nil THEN {<<Nil, ErrInvalidCookie>>}
    ELSE IF strategy = TokenBasedAuth /\ Len(Split(header)) # 2
    THEN {<<Nil, ErrInvalidAuthorization>>}
    ELSE LET token == IF strategy = CookieBasedAuth THEN cookie[1]
                      ELSE IF strategy = TokenBasedAuth THEN Split(header)[2]
                      ELSE <<>>
             v == VerifyToken(c, token, cacheOk)
         IN  IF v[2] # ErrNil THEN {<<Nil, ErrValidateCookie>>}
             ELSE {IF f[2] # ErrNil THEN <<Nil, ErrUserNotFound>> ELSE <<f[1], ErrNil>> :
                      f \in FindUser(TRUE, [k \in {"id"} |-> v[1]], rows, dbOk)}

\* The handler behind a guard: Logout when next = "Logout", and otherwise a
\* handler that only answers. <<err, cache', DEL's reply>>
ServeNext(next, principal, header, c, delOk) ==
    IF next = "Logout" THEN LogoutResult(principal, header, c, delOk)
    ELSE <<ErrNil, c, 0>>

\* ProtectRoute(next): a request through the cookie guard. On a failure the
\* guard calls ClearSession and answers 401. cacheOk: redis answers the GET;
\* dbOk: the database answers; delOk: redis answers the DEL.
ProtectRoute(cookie, header, next, cacheOk, dbOk, delOk) ==
    \E g \in getUserPrinciple(CookieBasedAuth, cookie, header, cache, rbac_user,
                              cacheOk, dbOk) :
        /\ IF g[2] # ErrNil
           THEN /\ cache' = ClearSessionResult(cookie, cache, delOk)[2]
                /\ res' = [op |-> "ProtectRoute", cookie |-> cookie, header |-> <<>>,
                           guardErr |-> g[2], status |-> StatusUnauthorized,
                           handlerRuns |-> 0, principal |-> Nil, bound |-> FALSE,
                           next |-> "", delOk |-> delOk, err |-> ErrNil, deleted |-> 0,
                           cookies |-> ClearSessionResult(cookie, cache, delOk)[3]]
           ELSE /\ cache' = ServeNext(next, g[1], header, cache, delOk)[2]
                /\ res' = [op |-> "ProtectRoute", cookie |-> cookie, header |-> header,
                           guardErr |-> g[2], status |-> StatusOK,
                           handlerRuns |-> 1, principal |-> g[1], bound |-> TRUE,
                           next |-> next,
                           delOk |-> IF next = "Logout" THEN delOk ELSE TRUE,
                           err |-> ServeNext(next, g[1], header, cache, delOk)[1],
                           deleted |-> ServeNext(next, g[1], header, cache, delOk)[3],
                           cookies |-> <<>>]
        /\ UNCHANGED <<rbac_user, userAutoInc, tokenCounter, loginMethod, migrationTables,
                       expiredInSeconds, calls,
                   rbacTables, now, issued>>

\* ProtectRouteUsingToken(next): a request through the bearer guard
ProtectRouteUsingToken(header, next, cacheOk, dbOk, delOk) ==
    \E g \in getUserPrinciple(TokenBasedAuth, Nil, header, cache, rbac_user,
                              cacheOk, dbOk) :
        /\ IF g[2] # ErrNil
           THEN /\ cache' = cache
                /\ res' = [op |-> "ProtectRouteUsingToken", header |-> header,
                           guardErr |-> g[2], status |-> StatusUnauthorized,
                           handlerRuns |-> 0, principal |-> Nil, bound |-> FALSE,
                           next |-> "", delOk |-> TRUE, err |-> ErrNil, deleted |-> 0]
           ELSE /\ cache' = ServeNext(next, g[1], header, cache, delOk)[2]
                /\ res' = [op |-> "ProtectRouteUsingToken", header |-> header,
                           guardErr |-> g[2], status |-> StatusOK,
                           handlerRuns |-> 1, principal |-> g[1], bound |-> TRUE,
                           next |-> next,
                           delOk |-> IF next = "Logout" THEN delOk ELSE TRUE,
                           err |-> ServeNext(next, g[1], header, cache, delOk)[1],
                           deleted |-> ServeNext(next, g[1], header, cache, delOk)[3]]
        /\ UNCHANGED <<rbac_user, userAutoInc, tokenCounter, loginMethod, migrationTables,
                       expiredInSeconds, calls,
                   rbacTables, now, issued>>

(***************************************************************************)
(* SignIn as the steps of one request, for requests that run concurrently: *)
(* the lookup in the database, the token strategy, the SETEX               *)
(***************************************************************************)
SignInAuthenticate(p, identifier, password) ==
    /\ calls[p].pc = "idle"
    /\ \E lk \in Lookup(loginMethod, identifier, rbac_user, TRUE) :
         LET auth == AuthenticateResult(lk[1], lk[2], password)
         IN  calls' = [calls EXCEPT ![p] =
                 [pc |-> IF auth[2] = ErrNil THEN "authenticated" ELSE "done",
                  loggedUser |-> auth[1], generated |-> <<>>,
                  user |-> Nil, token |-> <<>>, err |-> auth[2]]]
    /\ UNCHANGED <<rbac_user, userAutoInc, cache, tokenCounter, loginMethod, migrationTables,
                   expiredInSeconds, res,
                   rbacTables, now, issued>>

SignInGenerateToken(p) ==
    /\ calls[p].pc = "authenticated"
    /\ tokenCounter < MaxTokens
    /\ tokenCounter' = tokenCounter + 1
    /\ calls' = [calls EXCEPT ![p].pc = "generated",
                              ![p].generated = GenerateToken(tokenCounter + 1)]
    /\ UNCHANGED <<rbac_user, userAutoInc, cache, loginMethod, migrationTables,
                   expiredInSeconds, res,
                   rbacTables, now, issued>>

SignInSetex(p, cacheOk) ==
    /\ calls[p].pc = "generated"
    /\ LET r == SignInResult(calls[p].loggedUser, ErrNil, calls[p].generated, cache,
                             expiredInSeconds, cacheOk)
       IN  /\ cache' = r[4]
           /\ issued' = Issue(issued, calls[p].generated, now, r[3])
           /\ calls' = [calls EXCEPT ![p].pc = "done", ![p].user = r[1],
                                     ![p].token = r[2], ![p].err = r[3]]
    /\ UNCHANGED <<rbac_user, userAutoInc, tokenCounter, loginMethod, migrationTables,
                   expiredInSeconds, res,
                   rbacTables, now>>

\* the holder of the token request p returned revokes it (ClearSession with
\* the token as the session cookie)
RevokeToken(p) ==
    /\ calls[p].pc = "done"
    /\ calls[p].err = ErrNil
    /\ cache' = ClearSessionResult(<<calls[p].token>>, cache, TRUE)[2]
    /\ calls' = [calls EXCEPT ![p].pc = "revoked"]
    /\ UNCHANGED <<rbac_user, userAutoInc, tokenCounter, loginMethod, migrationTables,
                   expiredInSeconds, res,
                   rbacTables, now, issued>>

\* a second passes
Tick ==
    /\ cache # {}
    /\ cache' = Expire(cache)
    /\ now' = now + 1
    /\ res' = [op |-> "Tick", err |-> ErrNil]
    /\ UNCHANGED <<rbac_user, userAutoInc, tokenCounter, loginMethod, migrationTables,
                   expiredInSeconds, calls,
                   rbacTables, issued>>

(***************************************************************************)
(* User.Delete                                                             *)
(***************************************************************************)

\* DELETE FROM rbac_user WHERE id = ?
UserDelete(u) ==
    /\ rbac_user' = {r \in rbac_user : r.id # u.ID}
    /\ res' = [op |-> "Delete", id |-> u.ID, err |-> ErrNil]
    /\ UNCHANGED <<userAutoInc, cache, tokenCounter, loginMethod, migrationTables,
                   expiredInSeconds, calls,
                   rbacTables, now, issued>>

(***************************************************************************)
(* User.Save of any user value, Role.Delete, and FindUser with the order   *)
(* in which the filter map is iterated                                     *)
(***************************************************************************)

\* (u *User) Save(): <<err, rbac_user', AUTO_INCREMENT'>>. The insert takes a
\* new id when no unique key is hit; a hit on one row updates that row; a hit
\* on two rows (the email of one, the username of the other) updates the
\* first into a duplicate of the second, which MySQL refuses.
SaveUserResult(rows, autoInc, u, ok) ==
    LET hit == {r \in rows : r.email = u.Email \/ r.username = u.Username}
    IN  IF ~ok THEN <<ErrStore, rows, autoInc>>
        ELSE IF Cardinality(hit) > 1 THEN <<ErrDuplicate, rows, autoInc>>
        ELSE <<ErrNil, SaveUserRows(rows, autoInc, u),
               IF hit = {} THEN autoInc + 1 ELSE autoInc>>

UserSave(u, ok) ==
    /\ SaveUserResult(rbac_user, userAutoInc, u, ok)[3] <= MaxUsers
    /\ rbac_user' = SaveUserResult(rbac_user, userAutoInc, u, ok)[2]
    /\ userAutoInc' = SaveUserResult(rbac_user, userAutoInc, u, ok)[3]
    /\ res' = [op |-> "Save", email |-> u.Email, username |-> u.Username,
               err |-> SaveUserResult(rbac_user, userAutoInc, u, ok)[1]]
    /\ UNCHANGED <<cache, tokenCounter, loginMethod, migrationTables, expiredInSeconds, calls,
                   rbacTables, now, issued>>

\* (r *Role) Delete(): DELETE FROM rbac_role WHERE id = ?, refused for a role
\* without id. <<err, rbac_role'>>
RoleDeleteResult(roleID, rows) ==
    IF roleID <= 0 THEN <<ErrInvalidID, rows>>
    ELSE <<ErrNil, {r \in rows : r.id # roleID}>>

RoleDelete(roleID) ==
    /\ rbac_role' = RoleDeleteResult(roleID, rbac_role)[2]
    /\ res' = [op |-> "RoleDelete", id |-> roleID,
               err |-> RoleDeleteResult(roleID, rbac_role)[1]]
    /\ UNCHANGED <<rbac_user, userAutoInc, cache, tokenCounter, loginMethod, migrationTables,
                   expiredInSeconds, calls, rbac_permission, rbac_user_role,
                   rbac_role_permission, roleAutoInc, permissionAutoInc, now, issued>>

\* The text FindUser appends to fetchDynamicUserParams when range yields the
\* keys in the order keys: "k = ?" for each key, followed by " AND " while
\* index < paramsLength-1, index staying 0. The condition "k = ?" is k.
RECURSIVE FindUserWhere(_, _)
FindUserWhere(keys, paramsLength) ==
    IF keys = <<>> THEN <<>>
    ELSE <<Head(keys)>>
         \o (IF 0 < paramsLength - 1 THEN <<"AND">> ELSE <<>>)
         \o FindUserWhere(Tail(keys), paramsLength)

\* MySQL parses the WHERE clause: conditions separated by AND
WhereParses(where) ==
    /\ Len(where) % 2 = 1
    /\ \A i \in 1..Len(where) : (i % 2 = 0) <=> (where[i] = "AND")

\* the values bound to the placeholders, in the order of the keys
FindUserValues(keys, params) == [i \in 1..Len(keys) |-> params[keys[i]]]

\* the rows a parsed clause selects: the i-th condition compares its column
\* with the i-th value
WhereRows(rows, where, values) ==
    {r \in rows : \A i \in 1..Len(values) : r[where[2 * i - 1]] = values[i]}

\* (u *User) FindUser(params) when range iterates the map in the order keys:
\* the set of results <<user, err>>; LIMIT 1 keeps any one matching row
FindUserOrdered(params, keys, rows, ok) ==
    LET where == FindUserWhere(keys, Len(keys))
        values == FindUserValues(keys, params)
    IN  IF Len(keys) = 0 THEN {<<Nil, ErrInvalidParams>>}
        ELSE IF ~ok THEN {<<Nil, ErrStore>>}
        ELSE IF ~WhereParses(where) THEN {<<Nil, ErrSQLSyntax>>}
        ELSE IF WhereRows(rows, where, values) = {} THEN {<<Nil, ErrNil>>}
        ELSE {<< <<ScanUser(r)>>, ErrNil >> : r \in WhereRows(rows, where, values)}

FindUserCall(params, keys, ok) ==
    \E f \in FindUserOrdered(params, keys, rbac_user, ok) :
        /\ res' = [op |-> "FindUser", params |-> params, keys |-> keys, dbOk |-> ok,
                   user |-> f[1], err |-> f[2]]
        /\ UNCHANGED <<rbac_user, userAutoInc, cache, tokenCounter, loginMethod, migrationTables,
                       expiredInSeconds, calls, rbacTables, now, issued>>

(***************************************************************************)
(* Roles and permissions: Role.CreateRole, Permission.CreatePermission,    *)
(* Role.Assign, Role.Revoke, Role.AddPermission, User.CanAccess,           *)
(* User.HasPermission                                                      *)
(***************************************************************************)

\* INSERT INTO rbac_role (name, description); name is a unique key. The roles
\* CreateRole stores in the model have an empty description.
CreateRole(name) ==
    /\ roleAutoInc < MaxRoles
    /\ IF \E r \in rbac_role : r.name = name
       THEN /\ res' = [op |-> "CreateRole", err |-> ErrDuplicate]
            /\ UNCHANGED <<rbac_role, roleAutoInc>>
       ELSE /\ rbac_role' = rbac_role \cup
                   {[id |-> roleAutoInc + 1, name |-> name, description |-> ""]}
            /\ roleAutoInc' = roleAutoInc + 1
            /\ res' = [op |-> "CreateRole", err |-> ErrNil]
    /\ UNCHANGED <<rbac_user, userAutoInc, cache, tokenCounter, loginMethod, migrationTables,
                   expiredInSeconds, calls, rbac_permission, rbac_user_role,
                   rbac_role_permission, permissionAutoInc, now, issued>>

\* INSERT INTO rbac_permission (name, method, route, description); name is a
\* unique key
CreatePermission(name, method, route) ==
    /\ permissionAutoInc < MaxPermissions
    /\ IF \E q \in rbac_permission : q.name = name
       THEN /\ res' = [op |-> "CreatePermission", err |-> ErrDuplicate]
            /\ UNCHANGED <<rbac_permission, permissionAutoInc>>
       ELSE /\ rbac_permission' = rbac_permission \cup
                   {[id |-> permissionAutoInc + 1, name |-> name,
                     method |-> method, route |-> route]}
            /\ permissionAutoInc' = permissionAutoInc + 1
            /\ res' = [op |-> "CreatePermission", err |-> ErrNil]
    /\ UNCHANGED <<rbac_user, userAutoInc, cache, tokenCounter, loginMethod, migrationTables,
                   expiredInSeconds, calls, rbac_role, rbac_user_role,
                   rbac_role_permission, roleAutoInc, now, issued>>

\* (r *Role) Assign(u): INSERT INTO rbac_user_role (role_id, user_id); the
\* pair (role_id, user_id) is a unique key. <<err, rbac_user_role'>>
AssignResult(roleID, userID, rows) ==
    IF roleID <= 0 \/ userID <= 0 THEN <<ErrInvalidID, rows>>
    ELSE IF [role_id |-> roleID, user_id |-> userID] \in rows THEN <<ErrDuplicate, rows>>
    ELSE <<ErrNil, rows \cup {[role_id |-> roleID, user_id |-> userID]}>>

Assign(roleID, userID) ==
    /\ rbac_user_role' = AssignResult(roleID, userID, rbac_user_role)[2]
    /\ res' = [op |-> "Assign", role |-> roleID, user |-> userID,
               err |-> AssignResult(roleID, userID, rbac_user_role)[1]]
    /\ UNCHANGED <<rbac_user, userAutoInc, cache, tokenCounter, loginMethod, migrationTables,
                   expiredInSeconds, calls, rbac_role, rbac_permission,
                   rbac_role_permission, roleAutoInc, permissionAutoInc, now, issued>>

\* (r *Role) Revoke(u): DELETE FROM rbac_user_role WHERE role_id = ? AND
\* user_id = ?. <<err, rbac_user_role'>>
RevokeResult(roleID, userID, rows) ==
    IF roleID <= 0 \/ userID <= 0 THEN <<ErrInvalidID, rows>>
    ELSE <<ErrNil, {x \in rows : ~(x.role_id = roleID /\ x.user_id = userID)}>>

Revoke(roleID, userID) ==
    /\ rbac_user_role' = RevokeResult(roleID, userID, rbac_user_role)[2]
    /\ res' = [op |-> "Revoke", role |-> roleID, user |-> userID,
               err |-> RevokeResult(roleID, userID, rbac_user_role)[1]]
    /\ UNCHANGED <<rbac_user, userAutoInc, cache, tokenCounter, loginMethod, migrationTables,
                   expiredInSeconds, calls, rbac_role, rbac_permission,
                   rbac_role_permission, roleAutoInc, permissionAutoInc, now, issued>>

\* (r *Role) AddPermission(p): INSERT INTO rbac_role_permission (role_id,
\* permission_id); the pair is a unique key. <<err, rbac_role_permission'>>
AddPermissionResult(roleID, permissionID, rows) ==
    IF roleID <= 0 \/ permissionID <= 0 THEN <<ErrInvalidID, rows>>
    ELSE IF [role_id |-> roleID, permission_id |-> permissionID] \in rows
    THEN <<ErrDuplicate, rows>>
    ELSE <<ErrNil, rows \cup {[role_id |-> roleID, permission_id |-> permissionID]}>>

AddPermission(roleID, permissionID) ==
    /\ rbac_role_permission' =
           AddPermissionResult(roleID, permissionID, rbac_role_permission)[2]
    /\ res' = [op |-> "AddPermission", role |-> roleID, permission |-> permissionID,
               err |-> AddPermissionResult(roleID, permissionID, rbac_role_permission)[1]]
    /\ UNCHANGED <<rbac_user, userAutoInc, cache, tokenCounter, loginMethod, migrationTables,
                   expiredInSeconds, calls, rbac_role, rbac_permission,
                   rbac_user_role, roleAutoInc, permissionAutoInc, now, issued>>

\* rbac_user_role ur JOIN rbac_role_permission rp ON ur.role_id = rp.role_id
\* JOIN rbac_permission p ON p.id = rp.permission_id WHERE ur.user_id = ?
JoinUserPermission(userID, userRoles, rolePermissions, permissions) ==
    {j \in userRoles \X rolePermissions \X permissions :
        /\ j[1].role_id = j[2].role_id
        /\ j[3].id = j[2].permission_id
        /\ j[1].user_id = userID}

\* CanAccess whose query leaves out p.method = ?
CanAccess_RouteOnly(u, method, path, userRoles, rolePermissions, permissions, ok) ==
    IF ~ok THEN <<FALSE, ErrStore>>
    ELSE <<{j \in JoinUserPermission(u.ID, userRoles, rolePermissions, permissions) :
               j[3].route = path} # {},
           ErrNil>>

\* CanAccess that asks for exactly one row of the join
CanAccess_SingleRow(u, method, path, userRoles, rolePermissions, permissions, ok) ==
    IF ~ok THEN <<FALSE, ErrStore>>
    ELSE <<Cardinality(
             {j \in JoinUserPermission(u.ID, userRoles, rolePermissions, permissions) :
                 j[3].method = method /\ j[3].route = path}) = 1,
           ErrNil>>

\* getAccessQuery: SELECT EXISTS(SELECT * FROM (the join) WHERE ur.user_id = ?
\* AND p.method = ? AND p.route = ?). (u *User) CanAccess(method, path): <<bool, err>>
CanAccess(u, method, path, userRoles, rolePermissions, permissions, ok) ==
    IF ~ok THEN <<FALSE, ErrStore>>
    ELSE <<{j \in JoinUserPermission(u.ID, userRoles, rolePermissions, permissions) :
               j[3].method = method /\ j[3].route = path} # {},
           ErrNil>>

\* the rows of the subquery of getUserPermissionQuery: SELECT COUNT(1) as
\* count FROM (the join) WHERE ur.user_id = ? AND p.name = ?. An aggregate
\* without GROUP BY yields one row, the count, whatever the join holds.
UserPermissionCountRows(userID, permissionName, userRoles, rolePermissions, permissions) ==
    {[count |-> Cardinality(
         {j \in JoinUserPermission(userID, userRoles, rolePermissions, permissions) :
             j[3].name = permissionName})]}

\* getUserPermissionQuery: SELECT EXISTS(the subquery) AS is_exist.
\* (u *User) HasPermission(permissionName): <<bool, err>>
HasPermissionResult(u, permissionName, userRoles, rolePermissions, permissions, ok) ==
    IF ~ok THEN <<FALSE, ErrStore>>
    ELSE <<UserPermissionCountRows(u.ID, permissionName, userRoles, rolePermissions,
                                   permissions) # {},
           ErrNil>>

HasPermission(u, permissionName, ok) ==
    /\ res' = [op |-> "HasPermission", user |-> u.ID, permission |-> permissionName,
               dbOk |-> ok,
               result |-> HasPermissionResult(u, permissionName, rbac_user_role,
                                              rbac_role_permission, rbac_permission, ok)[1],
               err |-> HasPermissionResult(u, permissionName, rbac_user_role,
                                           rbac_role_permission, rbac_permission, ok)[2]]
    /\ UNCHANGED <<rbac_user, userAutoInc, cache, tokenCounter, loginMethod, migrationTables,
                   expiredInSeconds, calls, rbacTables, now, issued>>

\* CanAccess as a call of its own
CanAccessCall(u, method, path, ok) ==
    /\ res' = [op |-> "CanAccess", user |-> u.ID, method |-> method, path |-> path,
               dbOk |-> ok,
               result |-> CanAccess(u, method, path, rbac_user_role,
                                    rbac_role_permission, rbac_permission, ok)[1],
               err |-> CanAccess(u, method, path, rbac_user_role,
                                 rbac_role_permission, rbac_permission, ok)[2]]
    /\ UNCHANGED <<rbac_user, userAutoInc, cache, tokenCounter, loginMethod, migrationTables,
                   expiredInSeconds, calls, rbacTables, now, issued>>

\* getUserRoleQuery: rbac_user_role ur JOIN rbac_role r ON ur.role_id = r.id
\* WHERE ur.user_id = ? AND r.name = ?
JoinUserRole(userID, roleName, userRoles, roles) ==
    {j \in userRoles \X roles :
        /\ j[1].role_id = j[2].id
        /\ j[1].user_id = userID
        /\ j[2].name = roleName}

\* HasRole that counts the rows of rbac_user_role of the user, whatever role
\* they join
HasRoleResult_AnyRole(u, roleName, userRoles, roles, ok) ==
    IF ~ok THEN <<FALSE, ErrStore>>
    ELSE <<Cardinality({ur \in userRoles : ur.user_id = u.ID}) > 0, ErrNil>>

\* (u *User) HasRole(roleName): SELECT COUNT(1) of the join, and count > 0.
\* <<bool, err>>
HasRoleResult(u, roleName, userRoles, roles, ok) ==
    IF ~ok THEN <<FALSE, ErrStore>>
    ELSE <<Cardinality(JoinUserRole(u.ID, roleName, userRoles, roles)) > 0, ErrNil>>

HasRole(u, roleName, ok) ==
    /\ res' = [op |-> "HasRole", user |-> u.ID, role |-> roleName, dbOk |-> ok,
               result |-> HasRoleResult(u, roleName, rbac_user_role, rbac_role, ok)[1],
               err |-> HasRoleResult(u, roleName, rbac_user_role, rbac_role, ok)[2]]
    /\ UNCHANGED <<rbac_user, userAutoInc, cache, tokenCounter, loginMethod, migrationTables,
                   expiredInSeconds, calls, rbacTables, now, issued>>

(***************************************************************************)
(* Role.Save, the fetch operations and the store handle of the entities    *)
(* they return, the context variants, User.GetRoles                        *)
(***************************************************************************)

\* saveRoleQuery has four placeholders (VALUES (?, ?) ... UPDATE name = ?,
\* description = ?); Save passes r.Name and r.Description
SaveRolePlaceholders == 4

SaveRoleArgs == 2

\* (r *Role) Save(): database/sql refuses a statement whose number of
\* arguments is not its number of placeholders; otherwise the insert takes a
\* new id, or updates the role of that name. <<err, rbac_role', AUTO_INCREMENT'>>
RoleSaveResult(name, description, rows, autoInc, ok) ==
    LET hit == {r \in rows : r.name = name}
    IN  IF ~ok THEN <<ErrStore, rows, autoInc>>
        ELSE IF SaveRoleArgs # SaveRolePlaceholders THEN <<ErrArgs, rows, autoInc>>
        ELSE IF hit = {}
        THEN <<ErrNil,
               rows \cup {[id |-> autoInc + 1, name |-> name, description |-> description]},
               autoInc + 1>>
        ELSE <<ErrNil,
               (rows \ hit) \cup {[r EXCEPT !.description = description] : r \in hit},
               autoInc>>

RoleSave(name, description, ok) ==
    /\ RoleSaveResult(name, description, rbac_role, roleAutoInc, ok)[3] <= MaxRoles
    /\ rbac_role' = RoleSaveResult(name, description, rbac_role, roleAutoInc, ok)[2]
    /\ roleAutoInc' = RoleSaveResult(name, description, rbac_role, roleAutoInc, ok)[3]
    /\ res' = [op |-> "RoleSave", name |-> name, description |-> description, dbOk |-> ok,
               err |-> RoleSaveResult(name, description, rbac_role, roleAutoInc, ok)[1]]
    /\ UNCHANGED <<rbac_user, userAutoInc, cache, tokenCounter, loginMethod, migrationTables,
                   expiredInSeconds, calls, rbac_permission, rbac_user_role,
                   rbac_role_permission, permissionAutoInc, now, issued>>

\* An entity is a record with its ID and DBContract, whether it carries a
\* store handle (DBContract != nil).
\* (r *Role) GetRole(name): the role is scanned into new(Role), whose
\* DBContract is never set. <<role, err>>
GetRoleResult(DBContract, name, rows, ok) ==
    IF ~DBContract THEN <<Nil, ErrNoSchema>>
    ELSE IF ~ok THEN <<Nil, ErrStore>>
    ELSE IF {r \in rows : r.name = name} = {} THEN <<Nil, ErrNil>>
    ELSE << <<[ID |-> (CHOOSE r \in rows : r.name = name).id, Name |-> name,
               DBContract |-> FALSE]>>, ErrNil >>

\* (u *User) GetUser(email): user.DBContract = u.DBContract. <<user, err>>
GetUserResult(DBContract, email, rows, ok) ==
    IF ~DBContract THEN <<Nil, ErrNoSchema>>
    ELSE IF ~ok THEN <<Nil, ErrStore>>
    ELSE IF {r \in rows : r.email = email} = {} THEN <<Nil, ErrNil>>
    ELSE << <<[ID |-> (CHOOSE r \in rows : r.email = email).id, Name |-> email,
               DBContract |-> DBContract]>>, ErrNil >>

\* (p *Permission) GetPermission(name): permission.DBContract = p.DBContract.
\* <<permission, err>>
GetPermissionResult(DBContract, name, rows, ok) ==
    IF ~DBContract THEN <<Nil, ErrNoSchema>>
    ELSE IF ~ok THEN <<Nil, ErrStore>>
    ELSE IF {q \in rows : q.name = name} = {} THEN <<Nil, ErrNil>>
    ELSE << <<[ID |-> (CHOOSE q \in rows : q.name = name).id, Name |-> name,
               DBContract |-> DBContract]>>, ErrNil >>

\* a fetch through an entity that carries the store handle; kind is "GetRole",
\* "GetUser" or "GetPermission"
Fetch(kind, name, ok) ==
    LET f == IF kind = "GetRole" THEN GetRoleResult(TRUE, name, rbac_role, ok)
             ELSE IF kind = "GetUser" THEN GetUserResult(TRUE, name, rbac_user, ok)
             ELSE GetPermissionResult(TRUE, name, rbac_permission, ok)
    IN  /\ res' = [op |-> kind, name |-> name, dbOk |-> ok, entity |-> f[1], err |-> f[2]]
        /\ UNCHANGED <<rbac_user, userAutoInc, cache, tokenCounter, loginMethod, migrationTables,
                       expiredInSeconds, calls, rbacTables, now, issued>>

\* (r *Role) Assign(u) on entities: the handle of r is checked first
AssignEntityResult(r, u, rows) ==
    IF ~r.DBContract THEN <<ErrNoSchema, rows>>
    ELSE AssignResult(r.ID, u.ID, rows)

AssignEntity(r, u) ==
    /\ rbac_user_role' = AssignEntityResult(r, u, rbac_user_role)[2]
    /\ res' = [op |-> "AssignEntity", role |-> r.ID, user |-> u.ID,
               err |-> AssignEntityResult(r, u, rbac_user_role)[1]]
    /\ UNCHANGED <<rbac_user, userAutoInc, cache, tokenCounter, loginMethod, migrationTables,
                   expiredInSeconds, calls, rbac_role, rbac_permission,
                   rbac_role_permission, roleAutoInc, permissionAutoInc, now, issued>>

\* (r *Role) AddPermissionContext(ctx, p) with a live context: the INSERT is
\* sent without a check of the ids; ok is whether the database accepts it.
\* <<err, rbac_role_permission'>>
AddPermissionContextResult(roleID, permissionID, rows, ok) ==
    IF ~ok THEN <<ErrStore, rows>>
    ELSE IF [role_id |-> roleID, permission_id |-> permissionID] \in rows
    THEN <<ErrDuplicate, rows>>
    ELSE <<ErrNil, rows \cup {[role_id |-> roleID, permission_id |-> permissionID]}>>

AddPermissionContext(roleID, permissionID, ok) ==
    /\ rbac_role_permission' =
           AddPermissionContextResult(roleID, permissionID, rbac_role_permission, ok)[2]
    /\ res' = [op |-> "AddPermissionContext", role |-> roleID,
               permission |-> permissionID, dbOk |-> ok,
               err |-> AddPermissionContextResult(roleID, permissionID,
                                                  rbac_role_permission, ok)[1]]
    /\ UNCHANGED <<rbac_user, userAutoInc, cache, tokenCounter, loginMethod, migrationTables,
                   expiredInSeconds, calls, rbac_role, rbac_permission,
                   rbac_user_role, roleAutoInc, permissionAutoInc, now, issued>>

\* (u *User) HasPermissionContext(ctx, permissionName): the is_exist column of
\* getUserPermissionQuery is scanned into count, and count > 0 is returned.
\* <<bool, err>>
HasPermissionContextResult(u, permissionName, userRoles, rolePermissions, permissions, ok) ==
    LET count == IF UserPermissionCountRows(u.ID, permissionName, userRoles,
                                            rolePermissions, permissions) # {}
                 THEN 1 ELSE 0
    IN  IF ~ok THEN <<FALSE, ErrStore>> ELSE <<count > 0, ErrNil>>

HasPermissionContext(u, permissionName, ok) ==
    /\ res' = [op |-> "HasPermissionContext", user |-> u.ID,
               permission |-> permissionName, dbOk |-> ok,
               result |-> HasPermissionContextResult(u, permissionName, rbac_user_role,
                              rbac_role_permission, rbac_permission, ok)[1],
               err |-> HasPermissionContextResult(u, permissionName, rbac_user_role,
                              rbac_role_permission, rbac_permission, ok)[2]]
    /\ UNCHANGED <<rbac_user, userAutoInc, cache, tokenCounter, loginMethod, migrationTables,
                   expiredInSeconds, calls, rbacTables, now, issued>>

\* getUserRolesQuery selects five columns of rbac_user_role ur JOIN rbac_role r
\* WHERE ur.user_id = ?, a join without ON; GetRoles scans each row into six
\* destinations
GetRolesColumns == 5

GetRolesScanDests == 6

GetRolesRows(userID, userRoles, roles) ==
    {j \in userRoles \X roles : j[1].user_id = userID}

\* (u *User) GetRoles(): <<whether the slice returned is nil, the ids of the
\* roles in it, err>>. With no row the loop is not entered and the empty
\* slice is returned; with a row, the first iteration scans it, appends the
\* role when the scan succeeded, and returns nil, err.
GetRolesResult(u, userRoles, roles, ok) ==
    IF ~ok THEN <<TRUE, {}, ErrStore>>
    ELSE IF GetRolesRows(u.ID, userRoles, roles) = {} THEN <<FALSE, {}, ErrNil>>
    ELSE IF GetRolesScanDests # GetRolesColumns THEN <<TRUE, {}, ErrScan>>
    ELSE <<TRUE, {}, ErrNil>>

GetRoles(u, ok) ==
    /\ res' = [op |-> "GetRoles", user |-> u.ID, dbOk |-> ok,
               isNil |-> GetRolesResult(u, rbac_user_role, rbac_role, ok)[1],
               roles |-> GetRolesResult(u, rbac_user_role, rbac_role, ok)[2],
               err |-> GetRolesResult(u, rbac_user_role, rbac_role, ok)[3]]
    /\ UNCHANGED <<rbac_user, userAutoInc, cache, tokenCounter, loginMethod, migrationTables,
                   expiredInSeconds, calls, rbacTables, now, issued>>

(***************************************************************************)
(* Migration.Run: a migration step and the record of its key, in one       *)
(* transaction                                                             *)
(***************************************************************************)

\* (ptx *PagerTx) FinishTx(err): Commit for a nil error; Rollback for
\* ErrMigrationAlreadyExist; for any other error log.Fatal ends the process
\* before Rollback, and the database drops the open transaction.
FinishTx(err) ==
    IF err = ErrNil THEN "Commit"
    ELSE IF err = ErrMigrationAlreadyExist THEN "Rollback"
    ELSE "Fatal"

\* (m *Migration) Run(migration) for the migration of type name key, with
\* the outcomes of ptx.BeginTx, CheckMigration, migration.Run (stepOk, and
\* wrote: whether a failing step had written rows before it failed),
\* InsertMigration and Commit. The argument of the deferred ptx.FinishTx(err)
\* is evaluated at the defer statement, where err is the nil BeginTx returned.
\* <<err, rbac_migration', stepWrites', what FinishTx did>>
MigrationRunResult(key, rows, writes, beginOk, checkOk, stepOk, wrote, insertOk, commitOk) ==
    LET errAtDefer == ErrNil
        alreadyRun == key \in rows
        stepRan    == checkOk /\ ~alreadyRun
        err        == IF ~checkOk THEN ErrStore
                      ELSE IF alreadyRun THEN ErrMigrationAlreadyExist
                      ELSE IF ~stepOk THEN ErrMigrationStep
                      ELSE IF ~insertOk THEN ErrMigrationHistory
                      ELSE ErrNil
        txWrites   == IF stepRan /\ (stepOk \/ wrote) THEN {key} ELSE {}
        txRecord   == IF stepRan /\ stepOk /\ insertOk THEN {key} ELSE {}
        persists   == FinishTx(errAtDefer) = "Commit" /\ commitOk
    IN  IF ~beginOk THEN <<ErrStore, rows, writes, "None">>
        ELSE <<err,
               IF persists THEN rows \cup txRecord ELSE rows,
               IF persists THEN writes \cup txWrites ELSE writes,
               FinishTx(errAtDefer)>>

MigrationRun(key, beginOk, checkOk, stepOk, wrote, insertOk, commitOk) ==
    LET r == MigrationRunResult(key, rbac_migration, stepWrites, beginOk, checkOk,
                                stepOk, wrote, insertOk, commitOk)
    IN  /\ rbac_migration' = r[2]
        /\ stepWrites' = r[3]
        /\ res' = [op |-> "Migration.Run", key |-> key, beginOk |-> beginOk,
                   checkOk |-> checkOk, stepOk |-> stepOk, wrote |-> wrote,
                   insertOk |-> insertOk, commitOk |-> commitOk,
                   err |-> r[1], finish |-> r[4]]
        /\ UNCHANGED <<rbac_user, userAutoInc, cache, tokenCounter, loginMethod,
                       expiredInSeconds, calls, rbacTables, now, issued>>

(***************************************************************************)
(* GetUserLogin, ProtectWithRBAC, and Logout called on a request scope     *)
(***************************************************************************)

\* The request scope: <<>> when no value is bound under UserPrinciple, and
\* <<user>> when a guard bound user (a *schema.User, possibly nil).
\* GetUserLogin(r) is ctx.Value(UserPrinciple).(*schema.User): the assertion
\* panics on the nil interface of an unbound key.
GetUserLogin(ctx) ==
    IF ctx = <<>> THEN [panic |-> TRUE, user |-> Nil]
    ELSE [panic |-> FALSE, user |-> ctx[1]]

\* the guard writes 401 and goes on to the handler
ProtectWithRBACResult_NoReturn(user, access) ==
    IF user = Nil THEN [status |-> StatusUnauthorized, handlerRuns |-> 1]
    ELSE IF ~access[1] THEN [status |-> StatusForbidden, handlerRuns |-> 0]
    ELSE [status |-> StatusOK, handlerRuns |-> 1]

\* the guard tests CanAccess without the negation
ProtectWithRBACResult_Inverted(user, access) ==
    IF user = Nil THEN [status |-> StatusUnauthorized, handlerRuns |-> 0]
    ELSE IF access[1] THEN [status |-> StatusForbidden, handlerRuns |-> 0]
    ELSE [status |-> StatusOK, handlerRuns |-> 1]

\* ProtectWithRBAC once GetUserLogin returned user; access is what
\* user.CanAccess(r.Method, r.URL.Path) returns, of which the guard negates
\* the boolean
ProtectWithRBACResult(user, access) ==
    IF user = Nil THEN [status |-> StatusUnauthorized, handlerRuns |-> 0]
    ELSE IF ~access[1] THEN [status |-> StatusForbidden, handlerRuns |-> 0]
    ELSE [status |-> StatusOK, handlerRuns |-> 1]

\* ProtectWithRBAC(next): a request with scope ctx through the RBAC guard
ProtectWithRBAC(ctx, method, path, dbOk) ==
    LET g == GetUserLogin(ctx)
        access == IF g.user = Nil THEN <<FALSE, ErrNil>>
                  ELSE CanAccess(g.user[1], method, path, rbac_user_role,
                                 rbac_role_permission, rbac_permission, dbOk)
        r == ProtectWithRBACResult(g.user, access)
    IN  /\ res' = IF g.panic
                  THEN [op |-> "ProtectWithRBAC", ctx |-> ctx, panic |-> TRUE,
                        status |-> 0, handlerRuns |-> 0, method |-> method,
                        path |-> path, access |-> <<FALSE, ErrNil>>, err |-> ErrNil]
                  ELSE [op |-> "ProtectWithRBAC", ctx |-> ctx, panic |-> FALSE,
                        status |-> r.status, handlerRuns |-> r.handlerRuns,
                        method |-> method, path |-> path, access |-> access,
                        err |-> ErrNil]
        /\ UNCHANGED <<rbac_user, userAutoInc, cache, tokenCounter, loginMethod, migrationTables,
                       expiredInSeconds, calls, rbacTables, now, issued>>

\* Logout(request) on a request with scope ctx
Logout(ctx, header, cacheOk) ==
    LET g == GetUserLogin(ctx)
        r == LogoutResult(g.user, header, cache, cacheOk)
    IN  /\ cache' = IF g.panic THEN cache ELSE r[2]
        /\ res' = IF g.panic
                  THEN [op |-> "Logout", ctx |-> ctx, panic |-> TRUE, header |-> header,
                        err |-> ErrNil, deleted |-> 0]
                  ELSE [op |-> "Logout", ctx |-> ctx, panic |-> FALSE, header |-> header,
                        err |-> r[1], deleted |-> r[3]]
        /\ UNCHANGED <<rbac_user, userAutoInc, tokenCounter, loginMethod, migrationTables,
                       expiredInSeconds, calls, rbacTables, now, issued>>

(***************************************************************************)
(* Specifications                                                          *)
(***************************************************************************)
Procs == {1, 2}         \* the concurrent requests of SpecConcurrent

Init ==
    /\ rbac_user = {}
    /\ userAutoInc = 0
    /\ cache = {}
    /\ tokenCounter = 0
    /\ loginMethod \in {LoginEmail, LoginUsername, LoginEmailUsername}
    /\ expiredInSeconds \in 0..MaxTTL
    /\ res = [op |-> "NewAuth", err |-> ErrNil]
    /\ calls = [p \in Procs |-> [pc |-> "idle"]]
    /\ rbac_role = {}
    /\ rbac_permission = {}
    /\ rbac_user_role = {}
    /\ rbac_role_permission = {}
    /\ roleAutoInc = 0
    /\ permissionAutoInc = 0
    /\ now = 0
    /\ issued = {}
    /\ rbac_migration = {}
    /\ stepWrites = {}

\* what the requests of the model carry
Tokens == {GenerateToken(n) : n \in 1..MaxTokens}

Cookies == {Nil} \cup {<<t>> : t \in Tokens}

Headers ==
    {<<>>} \cup Tokens \cup {<<"Bearer", SP>> \o t : t \in Tokens}

\* the store operations and Authenticate over every email, username and secret
Next ==
    \/ \E e \in Names, n \in Names, p \in Secrets, ok \in BOOLEAN : Register(e, n, p, ok)
    \/ \E r \in rbac_user, a \in BOOLEAN : Save(r, a)
    \/ \E i \in Names, p \in Secrets, ok \in BOOLEAN : Authenticate(i, p, ok)

Spec == Init /\ [][Next]_vars

\* sessions, under the login method the host configures (LoginEmail): users
\* register with email = username, sign in, present their tokens to the
\* guards, log out; time passes
InitSession == Init /\ loginMethod = LoginEmail

Handlers == {"handler", "Logout"}     \* what runs behind a guard

\* what can fail during one guarded request, <<cacheOk, dbOk, delOk>>: nothing,
\* redis altogether, the database, redis at the DEL, the database and the DEL
Faults ==
    {<<TRUE, TRUE, TRUE>>, <<FALSE, TRUE, FALSE>>, <<TRUE, FALSE, TRUE>>,
     <<TRUE, TRUE, FALSE>>, <<TRUE, FALSE, FALSE>>}

NextSession ==
    \/ \E n \in Names : Register(n, n, "p", TRUE)
    \/ \E r \in rbac_user, a \in BOOLEAN : Save(r, a)
    \/ \E i \in Names, p \in Secrets, dbOk \in BOOLEAN, cacheOk \in BOOLEAN :
          SignIn(i, p, dbOk, cacheOk)
    \/ \E i \in Names, p \in Secrets, dbOk \in BOOLEAN, cacheOk \in BOOLEAN :
          SignInCookie(i, p, dbOk, cacheOk)
    \/ \E c \in Cookies, ok \in BOOLEAN : ClearSession(c, ok)
    \/ \E c \in Cookies, f \in Faults :
          ProtectRoute(c, <<>>, "handler", f[1], f[2], f[3])
    \/ \E c \in Cookies \ {Nil}, h \in Headers, f \in Faults :
          ProtectRoute(c, h, "Logout", f[1], f[2], f[3])
    \/ \E h \in Headers, next \in Handlers, f \in Faults :
          ProtectRouteUsingToken(h, next, f[1], f[2], f[3])
    \/ Tick

SpecSession == InitSession /\ [][NextSession]_vars

\* two concurrent SignIn requests, step by step, and the revocation of the
\* tokens they return
NextConcurrent ==
    \/ \E n \in Names : Register(n, n, "p", TRUE)
    \/ \E p \in Procs, i \in Names, s \in Secrets : SignInAuthenticate(p, i, s)
    \/ \E p \in Procs : SignInGenerateToken(p)
    \/ \E p \in Procs, ok \in BOOLEAN : SignInSetex(p, ok)
    \/ \E p \in Procs : RevokeToken(p)

SpecConcurrent == Init /\ [][NextConcurrent]_vars

\* the session guards: users register and are deleted, sign in under a time
\* to live of up to MaxExpiry seconds, time passes, and requests of every
\* shape go through the cookie guard and the bearer guard
InitGuard ==
    /\ rbac_user = {}
    /\ userAutoInc = 0
    /\ cache = {}
    /\ tokenCounter = 0
    /\ loginMethod = LoginEmail
    /\ expiredInSeconds \in 1..MaxExpiry
    /\ res = [op |-> "NewAuth", err |-> ErrNil]
    /\ calls = [p \in Procs |-> [pc |-> "idle"]]
    /\ rbac_role = {}
    /\ rbac_permission = {}
    /\ rbac_user_role = {}
    /\ rbac_role_permission = {}
    /\ roleAutoInc = 0
    /\ permissionAutoInc = 0
    /\ now = 0
    /\ issued = {}
    /\ rbac_migration = {}
    /\ stepWrites = {}

\* Authorization headers of no part, one part, two parts and three parts
GuardHeaders ==
    Headers \cup {<<"Bearer">>} \cup {<<"Bearer", SP, SP>> \o t : t \in Tokens}

NextGuard ==
    \/ \E n \in Names : Register(n, n, "p", TRUE)
    \/ \E r \in rbac_user : UserDelete(ScanUser(r))
    \/ \E i \in Names : SignIn(i, "p", TRUE, TRUE)
    \/ \E i \in Names : SignInCookie(i, "p", TRUE, TRUE)
    \/ Tick
    \/ \E c \in Cookies, f \in Faults :
          ProtectRoute(c, <<>>, "handler", f[1], f[2], f[3])
    \/ \E h \in GuardHeaders, f \in Faults :
          ProtectRouteUsingToken(h, "handler", f[1], f[2], f[3])

SpecGuard == InitGuard /\ [][NextGuard]_vars

\* the request scopes a guard in front can leave: no principal bound, a nil
\* principal, a stored user
Scopes == {<<>>, <<Nil>>} \cup {<< <<ScanUser(r)>> >> : r \in rbac_user}

RoleNames == {"admin", "staff"}

\* the permissions of the model: <<name, method, route>>
PermissionSpecs == {<<"read", "GET", "/a">>, <<"write", "POST", "/a">>}

Methods == {"GET", "POST"}

Routes == {"/a", "/b"}

\* the three guards and Logout: one role with one permission is granted to
\* users who sign in; requests go through the cookie guard, the bearer guard
\* and, with every scope, through the RBAC guard and Logout
NextChain ==
    \/ \E n \in Names : Register(n, n, "p", TRUE)
    \/ CreateRole("admin")
    \/ CreatePermission("read", "GET", "/a")
    \/ \E r \in rbac_role, u \in rbac_user : Assign(r.id, u.id)
    \/ \E r \in rbac_role, q \in rbac_permission : AddPermission(r.id, q.id)
    \/ \E i \in Names : SignIn(i, "p", TRUE, TRUE)
    \/ \E c \in Cookies, dbOk \in BOOLEAN :
          ProtectRoute(c, <<>>, "handler", TRUE, dbOk, TRUE)
    \/ \E h \in Headers, dbOk \in BOOLEAN :
          ProtectRouteUsingToken(h, "handler", TRUE, dbOk, TRUE)
    \/ \E ctx \in Scopes, path \in Routes, dbOk \in BOOLEAN :
          ProtectWithRBAC(ctx, "GET", path, dbOk)
    \/ \E ctx \in Scopes, h \in Headers, cacheOk \in BOOLEAN : Logout(ctx, h, cacheOk)

SpecChain == InitSession /\ [][NextChain]_vars

\* roles and permissions: two roles and one permission are created, assigned,
\* added and revoked, with ids that exist and with the id 0 of an unsaved
\* entity; HasPermission is asked for the permission that exists and for one
\* that does not, and requests go through the RBAC guard
NextRBAC ==
    \/ \E n \in Names : Register(n, n, "p", TRUE)
    \/ \E name \in RoleNames : CreateRole(name)
    \/ CreatePermission("read", "GET", "/a")
    \/ \E r \in 0..roleAutoInc, u \in 0..userAutoInc : Assign(r, u)
    \/ \E r \in 1..roleAutoInc, u \in 1..userAutoInc : Revoke(r, u)
    \/ \E r \in 0..roleAutoInc, q \in 0..permissionAutoInc : AddPermission(r, q)
    \/ \E u \in rbac_user, q \in PermissionSpecs, ok \in BOOLEAN :
          HasPermission(ScanUser(u), q[1], ok)
    \/ \E ctx \in Scopes \ {<<>>}, m \in Methods, path \in Routes, dbOk \in BOOLEAN :
          ProtectWithRBAC(ctx, m, path, dbOk)

SpecRBAC == InitSession /\ [][NextRBAC]_vars

\* the filter maps of the model: every map from a set of the columns email
\* and username to values
FilterColumns == {"email", "username"}

Filters == UNION {[d -> Names] : d \in SUBSET FilterColumns}

\* the orders in which range can yield the keys of a map
KeyOrders(params) ==
    {o \in UNION {[1..n -> DOMAIN params] : n \in {Cardinality(DOMAIN params)}} :
        \A i \in 1..Len(o), j \in 1..Len(o) : i # j => o[i] # o[j]}

\* the user values Save is called with
SavedUsers ==
    [Email : Names, Username : Names, Password : {HashPassword("p")}, Active : BOOLEAN]

\* the stores: users are registered, saved, looked up with every filter and
\* deleted, roles are created and deleted, with the ids of stored rows and
\* with the id 0 of an entity that was never stored
NextStore ==
    \/ \E e \in Names, n \in Names, ok \in BOOLEAN : Register(e, n, "p", ok)
    \/ \E u \in SavedUsers, ok \in BOOLEAN : UserSave(u, ok)
    \/ \E params \in Filters, ok \in BOOLEAN :
          \E keys \in KeyOrders(params) : FindUserCall(params, keys, ok)
    \/ \E id \in 0..userAutoInc : UserDelete([ID |-> id])
    \/ \E name \in RoleNames : CreateRole(name)
    \/ \E id \in 0..roleAutoInc : RoleDelete(id)

SpecStore == InitSession /\ [][NextStore]_vars

\* the n-th user, role and permission that SpecAccess stores
NthName(n) == IF n = 1 THEN "a" ELSE "b"

NthRole(n) == IF n = 1 THEN "admin" ELSE "staff"

NthPermission(n) ==
    IF n = 1 THEN <<"read", "GET", "/a">> ELSE <<"write", "POST", "/a">>

\* the request paths asked of CanAccess: the granted route and the same
\* route with a trailing slash
AccessPaths == {"/a", "/a/"}

\* the access checks: two users, two roles and two permissions are stored,
\* in this order; roles are assigned and revoked, permissions are added; then
\* HasRole, HasPermission and CanAccess are asked for every user, every name
\* and every (method, path), the store answering or failing
NextAccess ==
    \/ Register(NthName(userAutoInc + 1), NthName(userAutoInc + 1), "p", TRUE)
    \/ CreateRole(NthRole(roleAutoInc + 1))
    \/ CreatePermission(NthPermission(permissionAutoInc + 1)[1],
                        NthPermission(permissionAutoInc + 1)[2],
                        NthPermission(permissionAutoInc + 1)[3])
    \/ \E r \in rbac_role, u \in rbac_user : Assign(r.id, u.id)
    \/ \E r \in rbac_role, u \in rbac_user : Revoke(r.id, u.id)
    \/ \E r \in rbac_role, q \in rbac_permission : AddPermission(r.id, q.id)
    \/ \E u \in rbac_user, name \in RoleNames, ok \in BOOLEAN :
          HasRole(ScanUser(u), name, ok)
    \/ \E u \in rbac_user, q \in PermissionSpecs, ok \in BOOLEAN :
          HasPermission(ScanUser(u), q[1], ok)
    \/ \E u \in rbac_user, m \in Methods, path \in AccessPaths, ok \in BOOLEAN :
          CanAccessCall(ScanUser(u), m, path, ok)

InitAccess == InitSession /\ expiredInSeconds = MaxTTL

SpecAccess == InitAccess /\ [][NextAccess]_vars

\* the ids entities of the model carry: those of stored rows and the id 0 of
\* an entity that was never stored
RoleIDs == {r.id : r \in rbac_role} \cup {0}

PermissionIDs == {q.id : q \in rbac_permission} \cup {0}

\* the entities: one user, two roles and one permission are stored; roles are
\* saved, fetched, assigned through the fetched entity, revoked and deleted;
\* permissions are added through both variants of AddPermission; the roles
\* and the permissions of the user are asked
NextEntity ==
    \/ Register("a", "a", "p", TRUE)
    \/ CreateRole(NthRole(roleAutoInc + 1))
    \/ CreatePermission("read", "GET", "/a")
    \/ \E name \in RoleNames, ok \in BOOLEAN : RoleSave(name, "d", ok)
    \/ \E name \in RoleNames, ok \in BOOLEAN : Fetch("GetRole", name, ok)
    \/ \E ok \in BOOLEAN : Fetch("GetUser", "a", ok)
    \/ \E ok \in BOOLEAN : Fetch("GetPermission", "read", ok)
    \/ \E name \in RoleNames :
          /\ GetRoleResult(TRUE, name, rbac_role, TRUE)[1] # Nil
          /\ GetUserResult(TRUE, "a", rbac_user, TRUE)[1] # Nil
          /\ AssignEntity(GetRoleResult(TRUE, name, rbac_role, TRUE)[1][1],
                          GetUserResult(TRUE, "a", rbac_user, TRUE)[1][1])
    \/ \E r \in rbac_role, u \in rbac_user : Assign(r.id, u.id)
    \/ \E r \in rbac_role, u \in rbac_user : Revoke(r.id, u.id)
    \/ \E r \in RoleIDs, q \in PermissionIDs : AddPermission(r, q)
    \/ \E r \in RoleIDs, q \in PermissionIDs, ok \in BOOLEAN : AddPermissionContext(r, q, ok)
    \/ \E u \in rbac_user, ok \in BOOLEAN : HasPermission(ScanUser(u), "read", ok)
    \/ \E u \in rbac_user, ok \in BOOLEAN : HasPermissionContext(ScanUser(u), "read", ok)
    \/ \E u \in rbac_user, ok \in BOOLEAN : GetRoles(ScanUser(u), ok)
    \/ \E r \in rbac_role : RoleDelete(r.id)
    \/ \E u \in rbac_user, ok \in BOOLEAN : CanAccessCall(ScanUser(u), "GET", "/a", ok)

SpecEntity == InitAccess /\ [][NextEntity]_vars

\* the type names of the migrations that are run
MigrationKeys == {"CreateUsers", "CreateRoles", "SeedAdmin"}

\* migrations are run, in any order and again, with every outcome of the
\* transaction, the step and the recording
NextMigration ==
    \E key \in MigrationKeys,
       beginOk \in BOOLEAN, checkOk \in BOOLEAN, stepOk \in BOOLEAN,
       wrote \in BOOLEAN, insertOk \in BOOLEAN, commitOk \in BOOLEAN :
        MigrationRun(key, beginOk, checkOk, stepOk, wrote, insertOk, commitOk)

SpecMigration == InitAccess /\ [][NextMigration]_vars

(***************************************************************************)
(* Properties of Authenticate                                              *)
(***************************************************************************)

\* row is a user the identifier names under the login method
Identifies(method, row, identifier) ==
    \/ method = LoginEmail /\ row.email = identifier
    \/ method = LoginUsername /\ row.username = identifier
    \/ method = LoginEmailUsername /\ (row.email = identifier \/ row.username = identifier)

AuthenticateAnswered == res.op = "Authenticate" /\ res.dbOk

\* C1 as stated: for every registered user with active=true, Authenticate with
\* the user's identifier and the correct secret returns that user, and with
\* an incorrect secret fails with InvalidPassword.
C1_AsStated ==
    AuthenticateAnswered =>
        \A u \in rbac_user :
            u.active /\ Identifies(loginMethod, u, res.identifier) =>
                IF u.password = HashPassword(res.password)
                THEN res.err = ErrNil /\ res.user = <<ScanUser(u)>>
                ELSE res.err = ErrInvalidPasswordLogin

\* C1 (amended): for every registered user with active=true whose identifier
\* names no other stored user under the login method, Authenticate (its lookup
\* answered by the store) with that identifier and the correct secret returns
\* that user; with an incorrect secret it fails with InvalidPassword, never
\* with InvalidUser.
C1_Authenticate ==
    AuthenticateAnswered =>
        \A u \in rbac_user :
            /\ u.active
            /\ Identifies(loginMethod, u, res.identifier)
            /\ \A w \in rbac_user \ {u} : ~Identifies(loginMethod, w, res.identifier)
            => IF u.password = HashPassword(res.password)
               THEN res.err = ErrNil /\ res.user = <<ScanUser(u)>>
               ELSE res.err = ErrInvalidPasswordLogin /\ res.user = Nil

\* both cases of C1 need two stored users to be told apart: here the correct secret
C1_Witness ==
    /\ AuthenticateAnswered
    /\ Cardinality(rbac_user) = 2
    /\ \E u \in rbac_user :
          /\ u.active
          /\ Identifies(loginMethod, u, res.identifier)
          /\ \A w \in rbac_user \ {u} : ~Identifies(loginMethod, w, res.identifier)
          /\ u.password = HashPassword(res.password)
          /\ \E w \in rbac_user \ {u} : w.password # u.password
          /\ res.user = <<ScanUser(u)>>

\* C2 as stated: Authenticate never returns a user whose active flag is false,
\* and for every user with active=false, its identifier and a correct secret
\* it fails with UserNotActive.
C2_AsStated ==
    AuthenticateAnswered =>
        \A u \in rbac_user :
            /\ ~u.active
            /\ Identifies(loginMethod, u, res.identifier)
            /\ u.password = HashPassword(res.password)
            => res.err = ErrUserNotActive

\* C2 (amended): Authenticate never returns a user whose active flag is false;
\* for a user with active=false whose identifier names no other stored user
\* under the login method, and a correct secret, it fails with UserNotActive.
C2_NeverInactive ==
    res.op = "Authenticate" =>
        /\ res.user # Nil =>
              /\ res.err = ErrNil
              /\ res.user[1].Active
              /\ \E u \in rbac_user : u.active /\ res.user = <<ScanUser(u)>>
        /\ res.dbOk =>
              \A u \in rbac_user :
                  /\ ~u.active
                  /\ Identifies(loginMethod, u, res.identifier)
                  /\ \A w \in rbac_user \ {u} : ~Identifies(loginMethod, w, res.identifier)
                  /\ u.password = HashPassword(res.password)
                  => res.err = ErrUserNotActive /\ res.user = Nil

C2_Witness ==
    /\ AuthenticateAnswered
    /\ \E u \in rbac_user :
          /\ ~u.active
          /\ Identifies(loginMethod, u, res.identifier)
          /\ u.password = HashPassword(res.password)
          /\ res.err = ErrUserNotActive
          /\ res.user = Nil

\* C3: when the user lookup fails with a store error other than "no rows",
\* Authenticate fails with that storage error unchanged, not with InvalidUser.
C3_StoreErrorPropagates ==
    res.op = "Authenticate" /\ ~res.dbOk =>
        res.lookupErr = ErrStore /\ res.err = res.lookupErr

\* C4: when no user matches the identifier under the configured login method,
\* Authenticate fails with InvalidUser; in by-email mode a username does not
\* match, in by-username mode an email does not match.
C4_NoMatchInvalidUser ==
    res.op = "Authenticate" =>
        ((\A u \in rbac_user : ~Identifies(loginMethod, u, res.identifier))
            => res.err = ErrInvalidUserLogin /\ res.user = Nil)

\* an identifier that is only some user's username, in by-email mode (or only
\* some user's email, in by-username mode), is refused
C4_Witness ==
    /\ AuthenticateAnswered
    /\ \/ /\ loginMethod = LoginEmail
          /\ \E u \in rbac_user : u.username = res.identifier
          /\ \A u \in rbac_user : u.email # res.identifier
       \/ /\ loginMethod = LoginUsername
          /\ \E u \in rbac_user : u.email = res.identifier
          /\ \A u \in rbac_user : u.username # res.identifier
    /\ res.err = ErrInvalidUserLogin

\* C5: the user a successful Authenticate, SignIn or SignInCookie returns has
\* its secret-hash field cleared.
C5_HashCleared ==
    res.op \in {"Authenticate", "SignIn", "SignInCookie"} /\ res.user # Nil =>
        res.user[1].Password = ""

(***************************************************************************)
(* Properties of the sessions                                              *)
(***************************************************************************)

\* every answer the guard of the strategy can give to a request carrying
\* token, whatever fails, is a denial
GuardDenies(strategy, token) ==
    \A cacheOk \in BOOLEAN, dbOk \in BOOLEAN :
        \A g \in getUserPrinciple(strategy, <<token>>, <<"Bearer", SP>> \o token,
                                  cache, rbac_user, cacheOk, dbOk) :
            g[2] # ErrNil

\* the last call deleted key from the cache: ClearSession with key as the
\* cookie, or Logout with key as the Authorization header
Revoked(key) ==
    \/ res.op = "ClearSession" /\ res.err = ErrNil /\ res.cookie = <<key>>
    \/ /\ res.op \in {"ProtectRoute", "ProtectRouteUsingToken"}
       /\ res.next = "Logout" /\ res.err = ErrNil /\ res.header = key

\* C6: session round trip: after SignIn issues token T for user U,
\* VerifyToken(T) returns U's id; after T is revoked, VerifyToken(T) fails and
\* a guarded request carrying T is denied.
C6_SessionRoundTrip ==
    /\ res.op = "SignIn" /\ res.err = ErrNil =>
          /\ res.token # <<>>
          /\ \E u \in rbac_user : res.user = <<ScanUser(u)>>
          /\ VerifyToken(cache, res.token, TRUE) = <<res.user[1].ID, ErrNil>>
    /\ \A t \in Tokens :
          Revoked(t) =>
              /\ VerifyToken(cache, t, TRUE)[2] # ErrNil
              /\ GuardDenies(TokenBasedAuth, t)
              /\ GuardDenies(CookieBasedAuth, t)

\* a token the cache held (SignIn stored it) is revoked while another session
\* stays live, and no longer verifies
C6_Witness ==
    \E t \in Tokens :
        /\ Revoked(t)
        /\ res.deleted = 1
        /\ cache # {}
        /\ VerifyToken(cache, t, TRUE)[2] = ErrRedisNil

\* C7: after Logout succeeds on a request whose Authorization header is
\* "<scheme> T" and whose principal the bearer guard bound from T, the cache
\* no longer maps T, so later bearer-guarded requests carrying T are denied.
C7_LogoutRevokesBearerToken ==
    /\ res.op = "ProtectRouteUsingToken"
    /\ res.next = "Logout"
    /\ res.principal # Nil
    /\ res.err = ErrNil
    => /\ Split(res.header)[2] \notin CacheKeys(cache)
       /\ GuardDenies(TokenBasedAuth, Split(res.header)[2])

\* C8: revoking is idempotent: a ClearSession or Logout whose key the cache
\* does not hold (an unknown or already revoked token), with redis answering
\* the DEL, returns no error and leaves the cache unchanged.
C8_RevokeIdempotent ==
    [][ /\ ( /\ res'.op = "ClearSession"
             /\ res'.cookie # Nil
             /\ res'.cacheOk
             /\ res'.cookie[1] \notin CacheKeys(cache)
             => res'.err = ErrNil /\ cache' = cache )
        /\ ( /\ res'.op \in {"ProtectRoute", "ProtectRouteUsingToken"}
             /\ res'.next = "Logout"
             /\ res'.principal # Nil
             /\ res'.delOk
             /\ res'.header \notin CacheKeys(cache)
             => res'.err = ErrNil /\ cache' = cache )
      ]_vars

\* ClearSession revokes again an issued token that the cache no longer holds,
\* while another session is live
C8_Witness ==
    /\ res.op = "ClearSession"
    /\ res.err = ErrNil
    /\ res.deleted = 0
    /\ \E n \in 1..tokenCounter : res.cookie = <<GenerateToken(n)>>
    /\ cache # {}

\* request p's SignIn returned a token
SignedIn(p) == calls[p].pc \in {"done", "revoked"} /\ calls[p].err = ErrNil

\* C9: for any interleaving of two SignIn calls for the same user (the token
\* strategy returning distinct tokens), both returned tokens verify to that
\* user's id, and revoking one of them leaves the other valid.
C9_ConcurrentSignIn ==
    \A p \in Procs : \A q \in Procs \ {p} :
        SignedIn(p) /\ SignedIn(q) /\ calls[p].user = calls[q].user =>
            /\ calls[p].token # calls[q].token
            /\ calls[p].pc = "done" =>
                  VerifyToken(cache, calls[p].token, TRUE) = <<calls[p].user[1].ID, ErrNil>>
            /\ calls[p].pc = "revoked" =>
                  VerifyToken(cache, calls[p].token, TRUE)[2] # ErrNil

\* one of the two tokens of the second user is revoked and the other verifies
C9_Witness ==
    \E p \in Procs : \E q \in Procs \ {p} :
        /\ SignedIn(p) /\ SignedIn(q) /\ calls[p].user = calls[q].user
        /\ calls[p].user[1].ID = MaxUsers
        /\ calls[q].pc = "revoked"
        /\ calls[p].pc = "done"
        /\ VerifyToken(cache, calls[p].token, TRUE) = <<MaxUsers, ErrNil>>

\* C10: when the cache write in SignIn fails, SignIn fails with the
\* session-creation error, returns no user and no token, and the cache holds
\* no mapping for the generated token.
C10_SignInCacheWriteFails ==
    /\ res.op = "SignIn"
    /\ res.generated # <<>>
    /\ (~res.cacheOk \/ expiredInSeconds <= 0)
    => /\ res.err = ErrCreatingToken
       /\ res.user = Nil
       /\ res.token = <<>>
       /\ res.generated \notin CacheKeys(cache)

\* the write fails while the cache holds another session
C10_Witness ==
    /\ res.op = "SignIn"
    /\ res.generated # <<>>
    /\ ~res.cacheOk
    /\ res.err = ErrCreatingToken
    /\ cache # {}

(***************************************************************************)
(* Properties of the guards                                                *)
(***************************************************************************)

\* the last call went through the cookie guard or the bearer guard
Guarded == res.op \in {"ProtectRoute", "ProtectRouteUsingToken"}

\* the token the guarded request of the last call carried
GuardToken ==
    IF res.op = "ProtectRoute" THEN res.cookie[1] ELSE Split(res.header)[2]

\* the last call was a guarded request that carried a token
CarriedToken ==
    /\ Guarded
    /\ res.guardErr \notin {ErrInvalidCookie, ErrInvalidAuthorization}

\* C11: session verification never yields a user id for a token the cache
\* does not hold: for a key that was never stored, one that expired or was
\* deleted, and for a read that redis fails, VerifyToken returns an error and
\* both guards fail with the one error ErrValidateCookie; a guard admits a
\* request only if the cache holds its token.
C11_NoIdWithoutEntry ==
    /\ \A t \in Tokens \cup {<<>>}, cacheOk \in BOOLEAN, dbOk \in BOOLEAN :
          t \notin CacheKeys(cache) \/ ~cacheOk =>
              /\ VerifyToken(cache, t, cacheOk)[1] = -1
              /\ VerifyToken(cache, t, cacheOk)[2] # ErrNil
              /\ \A strategy \in {CookieBasedAuth, TokenBasedAuth} :
                    getUserPrinciple(strategy, <<t>>, <<"Bearer", SP>> \o t, cache,
                                     rbac_user, cacheOk, dbOk)
                        = {<<Nil, ErrValidateCookie>>}
    /\ CarriedToken /\ res.guardErr = ErrNil => GuardToken \in CacheKeys(cache)

\* the bearer guard refused with ErrValidateCookie a token that was issued and
\* has expired
C11_Witness ==
    /\ res.op = "ProtectRouteUsingToken"
    /\ res.guardErr = ErrValidateCookie
    /\ res.status = StatusUnauthorized
    /\ \E i \in issued : res.header = <<"Bearer", SP>> \o i.key
                         /\ i.key \notin CacheKeys(cache)
                         /\ now >= i.at + expiredInSeconds

\* C12: a session issued with a time to live of n seconds is valid only until
\* the cache evicts it: once n seconds have passed since the key was stored,
\* VerifyToken fails and both guards deny the token, with no explicit revoke.
C12_ExpiresAfterTTL ==
    \A i \in issued :
        now >= i.at + expiredInSeconds =>
            /\ VerifyToken(cache, i.key, TRUE)[2] # ErrNil
            /\ GuardDenies(TokenBasedAuth, i.key)
            /\ GuardDenies(CookieBasedAuth, i.key)

\* a session of MaxExpiry seconds, stored while the clock already ran, has
\* run out, and the bearer guard answers 401 to its token
C12_Witness ==
    /\ expiredInSeconds = MaxExpiry
    /\ res.op = "ProtectRouteUsingToken"
    /\ res.status = StatusUnauthorized
    /\ \E i \in issued : /\ i.at > 0
                         /\ now = i.at + expiredInSeconds
                         /\ res.header = <<"Bearer", SP>> \o i.key

\* C14: when the presented token verifies in the cache but no user row exists
\* for the id it maps to, the cookie and bearer guards answer 401
\* (ErrUserNotFound), bind no principal and do not run the handler.
C14_MissingRowDenied ==
    /\ CarriedToken
    /\ VerifyToken(cache, GuardToken, TRUE)[2] = ErrNil
    /\ \A r \in rbac_user : r.id # VerifyToken(cache, GuardToken, TRUE)[1]
    => /\ res.status = StatusUnauthorized
       /\ res.guardErr \in {ErrUserNotFound, ErrValidateCookie}
       /\ ~res.bound
       /\ res.handlerRuns = 0

\* C15: whenever the bearer guard admits a request with header "<scheme> T",
\* the principal bound to the request is the stored user whose id the cache
\* maps T to, and no other user.
C15_BearerBindsMappedUser ==
    res.op = "ProtectRouteUsingToken" /\ res.bound =>
        \E r \in rbac_user :
            /\ res.principal = <<ScanUser(r)>>
            /\ VerifyToken(cache, Split(res.header)[2], TRUE) = <<r.id, ErrNil>>

\* C16: in bearer mode an Authorization header that is not exactly two
\* space-separated parts is refused with ErrInvalidAuthorization and 401
\* whether or not redis and the database answer (no cache read precedes the
\* refusal), the handler does not run, and the request leaves the cache
\* unchanged and sets no cookie.
C16_MalformedHeaderRefused ==
    /\ [](\A h \in GuardHeaders, cacheOk \in BOOLEAN, dbOk \in BOOLEAN :
             Len(Split(h)) # 2 =>
                 getUserPrinciple(TokenBasedAuth, Nil, h, cache, rbac_user, cacheOk, dbOk)
                     = {<<Nil, ErrInvalidAuthorization>>})
    /\ [][ res'.op = "ProtectRouteUsingToken" /\ Len(Split(res'.header)) # 2 =>
               /\ res'.guardErr = ErrInvalidAuthorization
               /\ res'.status = StatusUnauthorized
               /\ res'.handlerRuns = 0
               /\ ~res'.bound
               /\ cache' = cache
               /\ "cookies" \notin DOMAIN res' ]_vars

\* a header of three parts whose last part is a live token is refused
C16_Witness ==
    /\ res.op = "ProtectRouteUsingToken"
    /\ Len(Split(res.header)) = 3
    /\ Split(res.header)[3] \in CacheKeys(cache)
    /\ res.guardErr = ErrInvalidAuthorization

\* C17: in cookie mode a request without a (well-formed) session cookie is
\* answered 401, and the session cleanup the guard performs before returning
\* puts the clearing cookie on the response.
C17_MissingCookieCleared ==
    res.op = "ProtectRoute" /\ res.cookie = Nil =>
        /\ res.status = StatusUnauthorized
        /\ res.guardErr = ErrInvalidCookie
        /\ res.handlerRuns = 0
        /\ res.cookies = <<ClearedCookie>>

\* C13: for each of the three guards, whenever the guard answers 401 or 403
\* the protected handler is not invoked for that request, and when the guard
\* admits the request the handler is invoked exactly once.
C13_DenialShortCircuits ==
    /\ Guarded =>
          /\ res.status \in {StatusUnauthorized, StatusForbidden} => res.handlerRuns = 0
          /\ res.guardErr # ErrNil => res.status = StatusUnauthorized
          /\ res.guardErr = ErrNil => res.handlerRuns = 1 /\ res.status = StatusOK
    /\ res.op = "ProtectWithRBAC" =>
          /\ res.status \in {StatusUnauthorized, StatusForbidden} => res.handlerRuns = 0
          /\ ~res.panic /\ res.ctx[1] = Nil => res.status = StatusUnauthorized
          /\ ~res.panic /\ res.ctx[1] # Nil /\ ~res.access[1] => res.status = StatusForbidden
          /\ ~res.panic /\ res.ctx[1] # Nil /\ res.access[1] =>
                res.handlerRuns = 1 /\ res.status = StatusOK

\* the RBAC guard admitted a request of a user who holds a live session
C13_Witness ==
    /\ res.op = "ProtectWithRBAC"
    /\ res.handlerRuns = 1
    /\ \E e \in cache : e.val = FormatInt(res.ctx[1][1].ID)

\* C18: when no principal is bound to the request scope, reading the principal
\* fails closed: the RBAC guard answers 401 without running the handler, and
\* Logout returns ErrInvalidUserLogin and deletes nothing; neither panics.
C18_NoPrincipalFailsClosed ==
    /\ res.op = "ProtectWithRBAC" /\ res.ctx = <<>> =>
          ~res.panic /\ res.status = StatusUnauthorized /\ res.handlerRuns = 0
    /\ res.op = "Logout" /\ res.ctx = <<>> =>
          ~res.panic /\ res.err = ErrInvalidUserLogin /\ res.deleted = 0

(***************************************************************************)
(* Properties of roles and permissions                                     *)
(***************************************************************************)

\* user userID holds, through some role, a permission that satisfies Pred
\* (rows of rbac_user_role, rbac_role_permission and rbac_permission that
\* chain)
HoldsPermission(userID, Pred(_)) ==
    \E ur \in rbac_user_role, rp \in rbac_role_permission, q \in rbac_permission :
        /\ ur.user_id = userID
        /\ ur.role_id = rp.role_id
        /\ rp.permission_id = q.id
        /\ Pred(q)

\* C19: with a principal bound, the RBAC guard runs the handler if and only if
\* CanAccess(principal.ID, request method, request path) returns true, which
\* it does exactly when the store answers and the principal holds a
\* permission for that method and path; when it returns false or fails with a
\* store error the guard answers 403 and the handler does not run.
C19_RBACFollowsCanAccess ==
    res.op = "ProtectWithRBAC" /\ ~res.panic /\ res.ctx[1] # Nil =>
        LET Matches(q) == q.method = res.method /\ q.route = res.path
            granted == HoldsPermission(res.ctx[1][1].ID, Matches)
        IN  /\ res.handlerRuns = 1 <=> res.access = <<TRUE, ErrNil>>
            /\ res.access = <<TRUE, ErrNil>> <=> (res.access[2] = ErrNil /\ granted)
            /\ res.access[2] # ErrNil => ~res.access[1]
            /\ res.handlerRuns = 0 => res.status = StatusForbidden
            /\ res.handlerRuns = 1 => res.status = StatusOK

\* the guard admits a user for GET /a while another user holds no role, and
\* the store answers
C19_Witness ==
    /\ res.op = "ProtectWithRBAC"
    /\ res.handlerRuns = 1
    /\ res.method = "GET" /\ res.path = "/a"
    /\ \E u \in rbac_user : \A ur \in rbac_user_role : ur.user_id # u.id

\* C20: after role R is assigned to user U and permission P is added to R,
\* HasPermission(U, P) is true; after R is revoked from U, U holding P through
\* no other role, HasPermission(U, P) is false again: the answer of
\* HasPermission, the store answering, is whether U holds P through a role.
C20_HasPermissionFollowsRoles ==
    res.op = "HasPermission" /\ res.dbOk =>
        LET Named(q) == q.name = res.permission
        IN  /\ res.err = ErrNil
            /\ res.result <=> HoldsPermission(res.user, Named)

(***************************************************************************)
(* Properties of the identity store                                        *)
(***************************************************************************)

\* the row Register stored for the user of res
Registered(r) ==
    /\ r.id = res.id
    /\ r.email = res.email
    /\ r.username = res.username

\* the call that follows a successful Register is Authenticate, answered by
\* the store, with an identifier of the registered user under the login
\* method and with the registered secret
AuthenticateAfterRegister ==
    /\ res.op = "Register" /\ res.err = ErrNil
    /\ res'.op = "Authenticate" /\ res'.dbOk
    /\ res'.password = res.password
    /\ Identifies(loginMethod, [email |-> res.email, username |-> res.username],
                  res'.identifier)

ReturnsRegistered ==
    /\ res'.err = ErrNil
    /\ res'.user # Nil
    /\ res'.user[1].ID = res.id
    /\ res'.user[1].Email = res.email
    /\ res'.user[1].Username = res.username
    /\ res'.user[1].Active

\* C24: after a successful Register(u) with plaintext secret s the store holds
\* the user with an assigned identifier (id > 0, no other row has it),
\* active = true and the stored secret Hash(s), which is not s; and
\* Authenticate with an identifier of u that names no other stored user under
\* the login method, and s, returns that user with Active = true.
C24_RegisterThenAuthenticate ==
    /\ [](res.op = "Register" /\ res.err = ErrNil =>
             \E r \in rbac_user :
                 /\ Registered(r)
                 /\ r.id > 0
                 /\ \A o \in rbac_user : o.id = r.id => o = r
                 /\ r.active
                 /\ r.password = HashPassword(res.password)
                 /\ r.password # res.password)
    /\ [][(/\ AuthenticateAfterRegister
           /\ \A o \in rbac_user :
                  o.id # res.id => ~Identifies(loginMethod, o, res'.identifier))
          => ReturnsRegistered]_vars

\* a second user has registered while another is stored
C24_Witness ==
    /\ res.op = "Register" /\ res.err = ErrNil
    /\ Cardinality(rbac_user) = 2
    /\ \E r \in rbac_user : Registered(r) /\ r.password = HashPassword(res.password)

\* C24 as stated: Authenticate with any identifier of u and s returns u,
\* whatever the other stored users
C24_AsStated ==
    [][AuthenticateAfterRegister => ReturnsRegistered]_vars

\* C28: in email-or-username mode, when the identifier is one user's email
\* and a different user's username, Authenticate resolves to the same one of
\* the two on every run, the user whose email it is (email before username),
\* whatever the order of the rows in the store.
C28_EmailBeforeUsername ==
    /\ AuthenticateAnswered
    /\ loginMethod = LoginEmailUsername
    /\ \E e \in rbac_user, n \in rbac_user :
          e # n /\ e.email = res.identifier /\ n.username = res.identifier
    => \E e \in rbac_user : e.email = res.identifier /\ res.found = <<ScanUser(e)>>

\* C25: after any sequence of Register and User.Save operations no two
\* stored users share an email and no two share a username; and a Register
\* whose email or username is already taken fails with the error of the store
\* and adds no user.
C25_UniqueEmailAndUsername ==
    /\ [](\A r1 \in rbac_user : \A r2 \in rbac_user \ {r1} :
              r1.email # r2.email /\ r1.username # r2.username /\ r1.id # r2.id)
    /\ [][(/\ res'.op = "Register"
           /\ \E r \in rbac_user : r.email = res'.email \/ r.username = res'.username)
          => /\ res'.err \in {ErrDuplicate, ErrStore}
             /\ rbac_user' = rbac_user]_vars

\* a Register whose username alone is taken was refused, in a store that Save
\* has written to
C25_Witness ==
    /\ res.op = "Register" /\ res.dbOk /\ res.err = ErrDuplicate
    /\ \E r \in rbac_user : r.username = res.username /\ r.email # res.email
    /\ \E r \in rbac_user : ~r.active

\* C29: for every non-empty filter map FindUser, the store answering,
\* returns a stored user matching all the pairs when one exists and (nil, nil)
\* when none exists, in whatever order the fields of the map are iterated;
\* an empty map yields ErrInvalidParams.
C29_FindUserMatchesAllPairs ==
    res.op = "FindUser" =>
        IF DOMAIN res.params = {}
        THEN res.user = Nil /\ res.err = ErrInvalidParams
        ELSE res.dbOk =>
                /\ res.err = ErrNil
                /\ IF MatchRows(rbac_user, res.params) = {}
                   THEN res.user = Nil
                   ELSE \E r \in MatchRows(rbac_user, res.params) :
                            res.user = <<ScanUser(r)>>

\* C30: Delete on a user or on a role that has no ID (ID <= 0) returns an
\* error and leaves the store unchanged.
C30_DeleteWithoutID ==
    [][res'.op \in {"Delete", "RoleDelete"} /\ res'.id <= 0
       => /\ res'.err # ErrNil
          /\ UNCHANGED <<rbac_user, rbac_role, rbac_permission, rbac_user_role,
                         rbac_role_permission>>]_vars

\* FindUser with a filter of one pair, the store answering, returns a
\* matching user or (nil, nil)
FindUserOnePair ==
    res.op = "FindUser" /\ Len(res.keys) = 1 /\ res.dbOk =>
        /\ res.err = ErrNil
        /\ IF MatchRows(rbac_user, res.params) = {} THEN res.user = Nil
           ELSE \E r \in MatchRows(rbac_user, res.params) : res.user = <<ScanUser(r)>>

(***************************************************************************)
(* Properties of the cookie sessions                                       *)
(***************************************************************************)

\* the keys the token strategy has produced so far
Produced == {GenerateCookie(n) : n \in 1..tokenCounter}

\* C27: cookie session round trip. After SignInCookie succeeds for user U the
\* response carries the issued cookie, and a cookie-guarded request carrying
\* it (redis and the database answering) is admitted with U as principal; an
\* admitted request runs the handler once. After ClearSession succeeds for
\* that cookie the cache entry is deleted and an empty, expiring cookie is set
\* on the response; a produced key that the cache does not hold never comes
\* back, and a cookie-guarded request carrying it is denied with 401.
C27_CookieRoundTrip ==
    /\ [](res.op = "SignInCookie" /\ res.err = ErrNil =>
             /\ res.cookies = <<SessionCookie(res.generated, expiredInSeconds)>>
             /\ \E u \in rbac_user : res.user = <<ScanUser(u)>>
             /\ \A g \in getUserPrinciple(CookieBasedAuth, <<res.generated>>, <<>>,
                                          cache, rbac_user, TRUE, TRUE) :
                    g = <<res.user, ErrNil>>)
    /\ [](res.op = "ClearSession" /\ res.err = ErrNil =>
             /\ res.cookie[1] \notin CacheKeys(cache)
             /\ Len(res.cookies) = 1
             /\ res.cookies[1].Value = <<>>
             /\ res.cookies[1].MaxAge < 0
             /\ GuardDenies(CookieBasedAuth, res.cookie[1]))
    /\ [][\A t \in Produced :
              /\ t \notin CacheKeys(cache) => t \notin CacheKeys(cache')
              /\ res'.op = "ProtectRoute" /\ res'.cookie = <<t>> =>
                    IF t \in CacheKeys(cache) /\ res'.guardErr = ErrNil
                    THEN /\ res'.status = StatusOK /\ res'.handlerRuns = 1
                         /\ <<res'.principal, ErrNil>> \in
                                getUserPrinciple(CookieBasedAuth, <<t>>, <<>>, cache,
                                                 rbac_user, TRUE, TRUE)
                    ELSE res'.status = StatusUnauthorized /\ res'.handlerRuns = 0
         ]_vars

\* a cookie that was issued and then revoked, before any second passed, is
\* carried to the cookie guard, which refuses it
C27_Witness ==
    /\ res.op = "ProtectRoute"
    /\ res.status = StatusUnauthorized
    /\ res.guardErr = ErrValidateCookie
    /\ res.cookie # Nil
    /\ res.cookie[1] \in Produced
    /\ \E i \in issued : i.key = res.cookie[1]
    /\ res.cookie[1] \notin CacheKeys(cache)
    /\ now = 0

\* C21: for a user with no rows in rbac_user_role, HasRole, HasPermission and
\* CanAccess each return false without error, for every role name, permission
\* name and (method, route), whatever roles and permissions the store holds.
C21_NoRoleNoGrant ==
    /\ res.op \in {"HasRole", "HasPermission", "CanAccess"}
    /\ res.dbOk
    /\ \A ur \in rbac_user_role : ur.user_id # res.user
    => ~res.result /\ res.err = ErrNil

\* C22: CanAccess(U, m, r) is true only if some permission reachable from U
\* through rbac_user_role and rbac_role_permission has method exactly m and
\* route exactly r: a grant for (GET, /a) grants neither (POST, /a) nor
\* (GET, /a/).
C22_ExactMethodAndRoute ==
    res.op = "CanAccess" =>
        LET Matches(q) == q.method = res.method /\ q.route = res.path
            Reachable == {q \in rbac_permission : HoldsPermission(res.user, LAMBDA x : x = q)}
        IN  /\ res.result => HoldsPermission(res.user, Matches)
            /\ (\A q \in Reachable : q.method = "GET" /\ q.route = "/a")
                  => ~(res.result /\ res.method = "POST" /\ res.path = "/a")
                     /\ ~(res.result /\ res.method = "GET" /\ res.path = "/a/")

\* a user who is granted (GET, /a) and nothing else, while the permission for
\* (POST, /a) is stored and granted to another role, is refused (POST, /a)
C22_Witness ==
    /\ res.op = "CanAccess" /\ res.dbOk /\ ~res.result
    /\ res.method = "POST" /\ res.path = "/a"
    /\ CanAccess([ID |-> res.user], "GET", "/a", rbac_user_role,
                 rbac_role_permission, rbac_permission, TRUE)[1]
    /\ \E rp \in rbac_role_permission, q \in rbac_permission :
          rp.permission_id = q.id /\ q.method = "POST" /\ q.route = "/a"

\* C23: after any sequence of role creations, Assign and Revoke, HasRole(U,
\* name), the store answering, is true if and only if a row (U, R) of
\* rbac_user_role exists for a stored role R with that name.
C23_HasRoleIffAssigned ==
    res.op = "HasRole" /\ res.dbOk =>
        /\ res.err = ErrNil
        /\ res.result <=>
              \E r \in rbac_role :
                  /\ r.name = res.role
                  /\ [role_id |-> r.id, user_id |-> res.user] \in rbac_user_role

\* HasRole is false for a user who holds the other role, and for a user whose
\* role was revoked while another user still holds it
C23_Witness ==
    /\ res.op = "HasRole" /\ res.dbOk /\ ~res.result
    /\ \E ur \in rbac_user_role : ur.user_id = res.user
    /\ \E r \in rbac_role, ur \in rbac_user_role :
          r.name = res.role /\ ur.role_id = r.id /\ ur.user_id # res.user

\* C26: when user U holds permission P through two roles, HasPermission(U, P)
\* and CanAccess for P's (method, route) are true, and they are true while U
\* holds P through one role (after one of the two is revoked): existence, not
\* count.
C26_ExistenceNotCount ==
    /\ res.op = "HasPermission" /\ res.dbOk =>
          LET Named(q) == q.name = res.permission
          IN  HoldsPermission(res.user, Named) => res.result /\ res.err = ErrNil
    /\ res.op = "CanAccess" /\ res.dbOk =>
          LET Matches(q) == q.method = res.method /\ q.route = res.path
          IN  HoldsPermission(res.user, Matches) => res.result /\ res.err = ErrNil

\* CanAccess is true for a user who holds the permission through two roles
C26_Witness ==
    /\ res.op = "CanAccess" /\ res.dbOk /\ res.result
    /\ \E j1, j2 \in JoinUserPermission(res.user, rbac_user_role, rbac_role_permission,
                                        rbac_permission) :
          /\ j1[1].role_id # j2[1].role_id
          /\ j1[3] = j2[3]
          /\ j1[3].method = res.method /\ j1[3].route = res.path

\* C36: a cookie- or bearer-guarded request carrying a still valid token of
\* a user whose active flag was set to false after login is denied: the guard
\* never binds an inactive user as principal.
C36_NoInactivePrincipal ==
    Guarded /\ res.principal # Nil => res.principal[1].Active

\* C37: a session cookie is set on the response of SignInCookie only if the
\* token to user mapping was stored in the cache; when the cache write fails
\* the response carries no session cookie.
C37_CookieOnlyWithCacheEntry ==
    res.op = "SignInCookie" /\ res.cookies # <<>> =>
        /\ res.err = ErrNil
        /\ \E e \in cache : e.key = res.cookies[1].Value

\* C38: when the cookie guard denies a request because the lookup of the user
\* fails in the store, the token being valid in the cache, the cache is left
\* unchanged.
C38_StoreErrorKeepsSession ==
    [][res'.op = "ProtectRoute" /\ res'.guardErr = ErrUserNotFound
       => cache' = cache]_vars

\* C39: the session cookie SignInCookie sets and the cache entry it writes
\* for the same token have the same lifetime: with expiredInSeconds = n the
\* cookie expires n seconds after issue, as the cache entry does.
C39_CookieLifetimeIsTTL ==
    res.op = "SignInCookie" /\ res.err = ErrNil =>
        \E e \in cache :
            /\ e.key = res.cookies[1].Value
            /\ e.ttl = expiredInSeconds
            /\ res.cookies[1].ExpiresInNanos = e.ttl * NanosPerSecond


\* C31: Role.Save on a working store returns no error, and afterwards the
\* store holds exactly one role of the saved name, carrying the saved
\* description.
C31_SaveIsUpsert ==
    res.op = "RoleSave" /\ res.dbOk =>
        /\ res.err = ErrNil
        /\ Cardinality({r \in rbac_role : r.name = res.name}) = 1
        /\ \A r \in rbac_role : r.name = res.name => r.description = res.description

\* C32: with a live context, AddPermissionContext returns the error of
\* AddPermission and leaves the rows AddPermission leaves (the ErrInvalidID
\* rejections included), and HasPermissionContext returns what HasPermission
\* returns.
C32_ContextVariantAgrees ==
    [][/\ res'.op = "AddPermissionContext" /\ res'.dbOk =>
              /\ res'.err = AddPermissionResult(res'.role, res'.permission,
                                                rbac_role_permission)[1]
              /\ rbac_role_permission' =
                     AddPermissionResult(res'.role, res'.permission,
                                         rbac_role_permission)[2]
       /\ res'.op = "HasPermissionContext" /\ res'.dbOk =>
              \A u \in rbac_user : u.id = res'.user =>
                  res'.result = HasPermissionResult(ScanUser(u), res'.permission,
                                    rbac_user_role, rbac_role_permission,
                                    rbac_permission, TRUE)[1]]_vars

\* C33: every entity a fetch returns carries the store handle, and Assign on
\* a role GetRole returned never fails with ErrNoSchema.
C33_FetchedEntityCarriesHandle ==
    /\ res.op \in {"GetRole", "GetUser", "GetPermission"} /\ res.entity # Nil
           => res.entity[1].DBContract
    /\ res.op = "AssignEntity" => res.err # ErrNoSchema

\* C34: GetRoles on a working store returns, without error, exactly the roles
\* assigned to the user; the empty list when none is assigned.
C34_GetRolesReturnsAssigned ==
    res.op = "GetRoles" /\ res.dbOk =>
        /\ res.err = ErrNil
        /\ ~res.isNil
        /\ res.roles = {r.id : r \in {r \in rbac_role :
                            [role_id |-> r.id, user_id |-> res.user] \in rbac_user_role}}

\* the user holds a permission that Pred admits through a role that is stored
HoldsThroughStoredRole(userID, Pred(_)) ==
    \E r \in rbac_role, q \in rbac_permission :
        /\ [role_id |-> r.id, user_id |-> userID] \in rbac_user_role
        /\ [role_id |-> r.id, permission_id |-> q.id] \in rbac_role_permission
        /\ Pred(q)

C35_RouteOf(q) == q.method = res.method /\ q.route = res.path

C35_NameOf(q) == q.name = res.permission

\* C35: a user whose only paths to a permission go through roles that were
\* deleted (the UserRole and RolePermission rows are still there) is not
\* granted it: CanAccess and HasPermission return false.
C35_DeletedRoleGrantsNothing ==
    /\ res.op = "CanAccess" /\ res.dbOk
       /\ HoldsPermission(res.user, C35_RouteOf)
       /\ ~HoldsThroughStoredRole(res.user, C35_RouteOf)
           => ~res.result
    /\ res.op = "HasPermission" /\ res.dbOk
       /\ HoldsPermission(res.user, C35_NameOf)
       /\ ~HoldsThroughStoredRole(res.user, C35_NameOf)
           => ~res.result


\* C40: Migration.Run persists its writes only when the step and the
\* recording of the key both succeeded; when it returns an error, the step's
\* writes and the record are rolled back and the tables are as before.
C40_FailedMigrationPersistsNothing ==
    [][res'.op = "Migration.Run" =>
          /\ res'.err # ErrNil => UNCHANGED migrationTables
          /\ ~UNCHANGED migrationTables => res'.stepOk /\ res'.insertOk]_vars

====
